---------------------------- MODULE Spec2Model ----------------------------
(***************************************************************************)
(* A model of the content pipeline of the Eddie onboarding backend:        *)
(*   - VectorStoreService.chunk_text, one loop iteration per step;          *)
(*   - the course state kept by CourseProcessor, VectorStoreService and     *)
(*     GeminiService (index, snapshot, generated course, quizzes) and the   *)
(*     operations of the API that change it.                                *)
(* Text is a sequence of one-character strings.  Positions in a text are    *)
(* Python's, counted from 0.                                                *)
(***************************************************************************)
EXTENDS Integers, Sequences, FiniteSets, TLC

VARIABLES
    ck_args,      \* chunk_text: the arguments text, chunk_size, overlap
    ck,           \* chunk_text: pc and the locals start, end, iteration, chunks
    wiki,         \* Confluence: version and document of each page
    configs,      \* onboarding/{id}.json: the stored configuration of a course
    collections,  \* ChromaDB: the collection course_{id} and its chunk records
    snapshots,    \* processed_courses/{id}.json
    gen_courses,  \* onboarding/courses/{id}.json
    quizzes,      \* onboarding/quizzes/{id}_final.json, {id}_module_{n}.json
    report,       \* what the last check_for_updates answered
    last_op,      \* the last request and its course
    last_run,     \* what the last request kept of its run of process_course
    tasks,        \* the background tasks in flight, oldest first
    steps,        \* number of requests and edits so far
    limits,       \* how many steps a behaviour takes, how many requests a run loses
    fn_in,        \* a function checked by itself: its name and arguments
    fn_out        \* its result

vars == <<ck_args, ck, wiki, configs, collections, snapshots, gen_courses,
          quizzes, report, last_op, last_run, tasks, steps, limits, fn_in, fn_out>>

course_vars == <<wiki, configs, collections, snapshots, gen_courses, quizzes,
                 report, last_op, last_run, tasks, steps, limits>>

---------------------------------------------------------------------------
(* Bounds of the model. *)

\* Longest text handed to chunk_text by the chunker specification.
MaxTextLen == 5

\* Largest chunk_size handed to chunk_text by the chunker specification.
MaxChunkSize == 4

\* Largest overlap handed to chunk_text by the chunker specification.
MaxOverlap == 3

\* Length of the longest wiki document.
LongLen == 520

\* Length of a text with a short sentence before a run without boundary.
GapLen == 603

\* Length of a sentence, with its full stop and space, in that document.
SentenceLen == 40

\* Most requests that fail during one processing run or one update check.
MaxFaults == 1

\* Most modules of a generated course.
MaxModules == 1

\* Highest version a page of the wiki reaches.
MaxVersion == 2

\* Most requests and edits in one behaviour without failing requests.
MaxSteps == 3

\* Most requests and edits in one behaviour with failing requests.
MaxFaultSteps == 2

\* Most requests and edits in one behaviour with background tasks.
MaxApiSteps == 2

\* Most background tasks in flight at a time.
MaxTasks == 2

\* Most linked pages of a configuration whose page set is resolved by itself.
MaxLinked == 2

\* Largest max_retries handed to _call_gemini_with_retry by itself.
MaxRetries == 4

\* Most pages with chunks in the index of a course whose content is generated.
MaxIndexPages == 3

\* Largest num_modules and num_questions asked of the generator.
MaxAsked == 3

\* Most items in a JSON array the model answers with.
MaxItems == 2

\* Highest module number a quiz is asked for.
MaxQuizModule == 1

\* Most answers of one quiz submission.
MaxSubmitted == 3

\* Most requests for a course in one behaviour of the generator.
MaxGeminiSteps == 2

\* Most requests for and submissions of quizzes in one behaviour.
MaxQuizSteps == 2

\* Longest list of page IDs a run walks through.
MaxPageIds == 3

---------------------------------------------------------------------------
(* Program constants. *)

\* vector_store.py:164  "if iteration > 100"
MaxIterations == 100

\* vector_store.py:137  chunk_size: int = 500
DefaultChunkSize == 500

\* vector_store.py:137  overlap: int = 50
DefaultOverlap == 50

\* confluence_service.py:109  params = {"limit": 100}
ChildLimit == 100

\* gemini_service.py:82  max_retries: int = 3
DefaultMaxRetries == 3

\* gemini_service.py:350  max_length = 3000
MaxFallbackLength == 3000

\* gemini_service.py:369  len("Please refer to the source documentation for
\* detailed information.")
PlaceholderLength == 66

\* gemini_service.py:525  source_content[:1000]
SnippetSource == 1000

\* gemini_service.py:529  if len(snippet) < 20
MinSnippet == 20

\* gemini_service.py:655  "passed": score_percentage >= 70
PassMark == 70

\* gemini_service.py:161, 300, 459, 462  n_results and search_results[:10]
CourseResults == 50
ModuleResults == 10
QuizResults == 20
QuizSourceResults == 10

---------------------------------------------------------------------------
(* Python helpers on sequences of characters. *)

Min(a, b) == IF a <= b THEN a ELSE b

Max(S) == CHOOSE x \in S : \A y \in S : y <= x

\* The characters str.strip() removes.
Whitespace == {" ", "\t", "\n", "\r"}

\* text[a:b], for 0 <= a
Slice(text, a, b) == SubSeq(text, a + 1, Min(b, Len(text)))

\* text.rfind(sub, lo, hi): the highest position i, lo <= i and i + len(sub) <= hi,
\* where sub occurs in text; -1 when there is none.
rfind(text, sub, lo, hi) ==
    LET e    == Min(hi, Len(text))
        hits == {i \in lo..(e - Len(sub)) : SubSeq(text, i + 1, i + Len(sub)) = sub}
    IN  IF hits = {} THEN -1 ELSE Max(hits)

RECURSIVE lstrip(_)
lstrip(s) == IF s # <<>> /\ Head(s) \in Whitespace THEN lstrip(Tail(s)) ELSE s

RECURSIVE rstrip(_)
rstrip(s) ==
    IF s # <<>> /\ s[Len(s)] \in Whitespace
    THEN rstrip(SubSeq(s, 1, Len(s) - 1))
    ELSE s

\* s.strip()
strip(s) == rstrip(lstrip(s))

---------------------------------------------------------------------------
(* VectorStoreService.chunk_text *)

\* max(text.rfind('. ', start, end), text.rfind('! ', start, end),
\*     text.rfind('? ', start, end))
sentence_end(text, start, end) ==
    Max({rfind(text, <<".", " ">>, start, end),
         rfind(text, <<"!", " ">>, start, end),
         rfind(text, <<"?", " ">>, start, end)})

\* A cut that looks for the word boundary before the sentence boundary.
chunk_end_word_first(text, start, chunk_size) ==
    LET end == start + chunk_size
    IN  IF end < Len(text)
        THEN IF rfind(text, <<" ">>, start, end) > start
             THEN rfind(text, <<" ">>, start, end)
             ELSE IF sentence_end(text, start, end) > start
                  THEN sentence_end(text, start, end) + 1
                  ELSE end
        ELSE Len(text)

\* The end of the chunk that starts at start: the window's raw end
\* start + chunk_size, moved back to a sentence or word boundary when the
\* window does not reach the end of the text.
chunk_end(text, start, chunk_size) ==
    LET end == start + chunk_size
    IN  IF end < Len(text)
        THEN IF sentence_end(text, start, end) > start
             THEN sentence_end(text, start, end) + 1
             ELSE IF rfind(text, <<" ">>, start, end) > start
                  THEN rfind(text, <<" ">>, start, end)
                  ELSE end
        ELSE Len(text)

\* min_progress = chunk_size // 4
min_progress(chunk_size) == chunk_size \div 4

\* A next start without the minimum advance: always end - overlap.
next_start_plain(start, end, chunk_size, overlap) == end - overlap

\* The start of the next chunk.
next_start(start, end, chunk_size, overlap) ==
    IF end - overlap <= start + min_progress(chunk_size)
    THEN start + min_progress(chunk_size)
    ELSE end - overlap

\* The locals of chunk_text on entry, before the function is called.
chunk_call == [pc |-> "call", start |-> 0, end |-> 0, iteration |-> 0,
               chunks |-> <<>>, win_start |-> 0]

\* The early return for a text that fits in one chunk, else the loop's set-up.
chunk_entry(args) ==
    IF args.text = <<>> \/ Len(args.text) <= args.chunk_size
    THEN [chunk_call EXCEPT !.pc = "done",
                            !.chunks = IF args.text # <<>> THEN <<args.text>> ELSE <<>>]
    ELSE [chunk_call EXCEPT !.pc = "loop"]

\* A loop without the cap on the number of iterations.
chunk_iter_uncapped(args, st) ==
    IF ~(st.start < Len(args.text))
    THEN [st EXCEPT !.pc = "done"]
    ELSE LET end   == chunk_end(args.text, st.start, args.chunk_size)
             chunk == strip(Slice(args.text, st.start, end))
             out   == IF chunk # <<>> THEN Append(st.chunks, chunk) ELSE st.chunks
         IN  IF end >= Len(args.text)
             THEN [st EXCEPT !.pc = "done", !.iteration = st.iteration + 1,
                             !.end = end, !.chunks = out, !.win_start = st.start]
             ELSE [st EXCEPT !.iteration = st.iteration + 1,
                             !.end = end, !.chunks = out, !.win_start = st.start,
                             !.start = next_start(st.start, end, args.chunk_size,
                                                  args.overlap)]

\* One evaluation of the while loop: its test and, when it holds, its body.
\* win_start keeps the start the body ran with.
chunk_iter(args, st) ==
    IF ~(st.start < Len(args.text))
    THEN [st EXCEPT !.pc = "done"]
    ELSE IF st.iteration + 1 > MaxIterations
    THEN [st EXCEPT !.pc = "done", !.iteration = st.iteration + 1]
    ELSE LET end   == chunk_end(args.text, st.start, args.chunk_size)
             chunk == strip(Slice(args.text, st.start, end))
             out   == IF chunk # <<>> THEN Append(st.chunks, chunk) ELSE st.chunks
         IN  IF end >= Len(args.text)
             THEN [st EXCEPT !.pc = "done", !.iteration = st.iteration + 1,
                             !.end = end, !.chunks = out, !.win_start = st.start]
             ELSE [st EXCEPT !.iteration = st.iteration + 1,
                             !.end = end, !.chunks = out, !.win_start = st.start,
                             !.start = next_start(st.start, end, args.chunk_size,
                                                  args.overlap)]

RECURSIVE chunk_loop(_, _)
chunk_loop(args, st) ==
    IF st.pc = "done" THEN st.chunks ELSE chunk_loop(args, chunk_iter(args, st))

\* chunk_text(text, chunk_size, overlap), run to its return value.
chunk_text(text, chunk_size, overlap) ==
    LET args == [text |-> text, chunk_size |-> chunk_size, overlap |-> overlap]
    IN  chunk_loop(args, chunk_entry(args))

---------------------------------------------------------------------------
(* strip_html (vector_store.py) *)

\* The least position (from 1) at or after from where sub occurs in s, 0 if none.
FindFrom(s, sub, from) ==
    LET hits == {i \in from..(Len(s) - Len(sub) + 1) :
                    SubSeq(s, i, i + Len(sub) - 1) = sub}
    IN  IF hits = {} THEN 0 ELSE CHOOSE i \in hits : \A j \in hits : i <= j

\* s.replace(old, new), for a non-empty old
RECURSIVE replace(_, _, _)
replace(s, old, new) ==
    LET i == FindFrom(s, old, 1)
    IN  IF i = 0 THEN s
        ELSE SubSeq(s, 1, i - 1) \o new
                \o replace(SubSeq(s, i + Len(old), Len(s)), old, new)

\* The start of the leftmost match of <[^>]+> in s: a "<", at least one
\* character that is not ">", then ">"; 0 if there is none.
TagStart(s) ==
    LET hits == {i \in 1..(Len(s) - 2) :
                    /\ s[i] = "<"
                    /\ s[i + 1] # ">"
                    /\ \E j \in (i + 2)..Len(s) : s[j] = ">"}
    IN  IF hits = {} THEN 0 ELSE CHOOSE i \in hits : \A j \in hits : i <= j

\* re.sub(r'<[^>]+>', ' ', s)
RECURSIVE sub_tags(_)
sub_tags(s) ==
    LET i == TagStart(s)
        j == FindFrom(s, <<">">>, i + 2)
    IN  IF i = 0 THEN s
        ELSE SubSeq(s, 1, i - 1) \o <<" ">> \o sub_tags(SubSeq(s, j + 1, Len(s)))

\* re.sub(r'\s+', ' ', s): every run of whitespace becomes one space.
RECURSIVE sub_spaces(_)
sub_spaces(s) ==
    LET ws == {i \in 1..Len(s) : s[i] \in Whitespace}
    IN  IF ws = {} THEN s
        ELSE LET i == CHOOSE x \in ws : \A y \in ws : x <= y
                 k == CHOOSE x \in (i + 1)..(Len(s) + 1) :
                         /\ x = Len(s) + 1 \/ s[x] \notin Whitespace
                         /\ \A m \in (i + 1)..(x - 1) : s[m] \in Whitespace
             IN  SubSeq(s, 1, i - 1) \o <<" ">>
                    \o sub_spaces(SubSeq(s, k, Len(s)))

strip_html(html_content) ==
    IF html_content = <<>> THEN <<>>
    ELSE LET t1 == sub_tags(html_content)
             t2 == replace(t1, <<"&", "n", "b", "s", "p", ";">>, <<" ">>)
             t3 == replace(t2, <<"&", "l", "t", ";">>, <<"<">>)
             t4 == replace(t3, <<"&", "g", "t", ";">>, <<">">>)
             t5 == replace(t4, <<"&", "a", "m", "p", ";">>, <<"&">>)
             t6 == replace(t5, <<"&", "q", "u", "o", "t", ";">>, <<"\"">>)
         IN  strip(sub_spaces(t6))

---------------------------------------------------------------------------
(* VectorStoreService._hash_text *)

\* The characters of the model's documents, each with a code of its own.
CharCodes == <<" ", ".", "a", "b", "c", "&">>

Code(c) == CHOOSE k \in 1..Len(CharCodes) : CharCodes[k] = c

RECURSIVE WeightedSum(_, _, _)
WeightedSum(text, lo, hi) ==
    IF lo > hi THEN 0
    ELSE IF lo = hi THEN lo * Code(text[lo])
    ELSE LET mid == (lo + hi) \div 2
         IN  WeightedSum(text, lo, mid) + WeightedSum(text, mid + 1, hi)

\* hashlib.md5(text.encode()).hexdigest()[:8]: a digest of the text.  MD5 is
\* stood for by a position-weighted checksum, which like MD5 gives equal texts
\* equal digests and tells the model's chunk texts apart.
hash_text(text) == <<Len(text), WeightedSum(text, 1, Len(text))>>

---------------------------------------------------------------------------
(* The wiki: pages, their tree and the documents they can hold. *)

Pages == {"P1", "P2", "P3"}

Courses == {"c1", "c2"}

\* The page tree served by /content/{id}/child/page: P1 holds P2, P2 holds P3.
Children ==
    [p \in Pages |-> CASE p = "P1" -> <<"P2">>
                       [] p = "P2" -> <<"P3">>
                       [] OTHER    -> <<>>]

\* The documents a page can hold, by name.
BodyIds == {"empty", "short", "long"}

\* body.storage.value of each document: markup only; a paragraph with an
\* entity; a text longer than one chunk, made of sentences of SentenceLen
\* characters.
page_body(b) ==
    CASE b = "empty" -> <<"<", "p", ">", "<", "/", "p", ">">>
      [] b = "short" -> <<"<", "p", ">", "a", " ", "&", "a", "m", "p", ";",
                          " ", "b", ".", "<", "/", "p", ">">>
      [] OTHER       -> [i \in 1..LongLen |->
                            IF i % SentenceLen = 0 THEN " "
                            ELSE IF i % SentenceLen = SentenceLen - 1 THEN "."
                            ELSE "c"]

\* What add_page_content derives from a document before it touches the
\* index (vector_store.py:236-256): the chunks of the cleaned text, each with
\* the digest that goes into its ID.
RECURSIVE digests(_)
digests(chunks) ==
    IF chunks = <<>> THEN <<>>
    ELSE <<hash_text(Head(chunks))>> \o digests(Tail(chunks))

prepare(b) ==
    digests(chunk_text(strip_html(page_body(b)), DefaultChunkSize, DefaultOverlap))

PageChunks ==
    [empty |-> prepare("empty"), short |-> prepare("short"), long |-> prepare("long")]

\* len(page_body)
ContentLength ==
    [empty |-> Len(page_body("empty")), short |-> Len(page_body("short")),
     long |-> Len(page_body("long"))]

---------------------------------------------------------------------------
(* Answers of the outside world to one run: for each page, how the requests *)
(* for its children go, and how fetching and embedding the page go.         *)

TreeAnswers == {"ok", "folder_fail", "child_fail", "child_raise"}

\* Fetching and embedding a page: both succeed; get_page_by_id answers None;
\* get_page_by_id raises; generate_embeddings raises.
PageAnswers == {"ok", "not_found", "fetch_raise", "embed_fail"}

GenAnswers == {"ok", "fail"}

\* tree, page: the wiki and the embedding service, page by page; course,
\* quiz: the generation of a course and of a quiz; modules: how many modules
\* the generated course gets; children: the child pages the wiki holds for
\* each page.
Faults(a) ==
    Cardinality({p \in Pages : a.tree[p] # "ok"})
        + Cardinality({p \in Pages : a.page[p] # "ok"})
        + (IF a.course # "ok" THEN 1 ELSE 0) + (IF a.quiz # "ok" THEN 1 ELSE 0)

\* The answers in which nothing fails.
FaultFree ==
    {[tree |-> [p \in Pages |-> "ok"], page |-> [p \in Pages |-> "ok"],
      course |-> "ok", quiz |-> "ok", modules |-> m,
      children |-> Children] : m \in 1..MaxModules}

\* The answers that differ from a by one more failing request.
OneMoreFault(a) ==
    {[a EXCEPT !.tree[p] = t] :
        p \in {q \in Pages : a.tree[q] = "ok"}, t \in TreeAnswers \ {"ok"}}
    \cup {[a EXCEPT !.page[p] = t] :
        p \in {q \in Pages : a.page[q] = "ok"}, t \in PageAnswers \ {"ok"}}
    \cup {[a EXCEPT !.course = "fail"]} \cup {[a EXCEPT !.quiz = "fail"]}

RECURSIVE AnswersWith(_)
AnswersWith(k) ==
    IF k = 0 THEN FaultFree
    ELSE AnswersWith(k - 1) \cup UNION {OneMoreFault(a) : a \in AnswersWith(k - 1)}

\* The answers in which up to MaxFaults requests fail.
Answers == AnswersWith(MaxFaults)

Range(s) == {s[i] : i \in 1..Len(s)}

\* list(a_set): the elements in some order
Orders(S) ==
    {s \in [1..Cardinality(S) -> S] : \A i, j \in 1..Cardinality(S) :
                                          s[i] = s[j] => i = j}

---------------------------------------------------------------------------
(* ConfluenceService *)

\* The results of GET /content/{id}/child/page?limit=n: the first n children;
\* the code does not follow the link to the next batch.
child_results(page_id, a, limit) == Slice(a.children[page_id], 0, limit)

\* is_page_a_folder: any failure of the request answers False.
is_page_a_folder(page_id, a) ==
    a.tree[page_id] # "folder_fail" /\ Len(child_results(page_id, a, 1)) > 0

\* child_ids.append / child_ids.extend: the IDs collected so far followed by
\* the ones collected next; an exception in either part ends the call.
child_ids_of(first, rest) ==
    IF first.raised \/ rest.raised
    THEN [raised |-> TRUE, ids |-> <<>>]
    ELSE [raised |-> FALSE, ids |-> first.ids \o rest.ids]

\* get_child_pages(parent, recursive=True): a RequestException at a page
\* answers [] for that page; any other exception propagates to the caller.
\* child_walk is the loop over results[lo..hi]: each child followed by its
\* own descendants, in the order of the results.
RECURSIVE get_child_pages(_, _)
RECURSIVE child_walk(_, _, _, _)
get_child_pages(parent_page_id, a) ==
    IF a.tree[parent_page_id] = "child_fail"
    THEN [raised |-> FALSE, ids |-> <<>>]
    ELSE IF a.tree[parent_page_id] = "child_raise"
    THEN [raised |-> TRUE, ids |-> <<>>]
    ELSE child_walk(child_results(parent_page_id, a, ChildLimit), 1,
                    Len(child_results(parent_page_id, a, ChildLimit)), a)

child_walk(results, lo, hi, a) ==
    IF lo > hi THEN [raised |-> FALSE, ids |-> <<>>]
    ELSE IF lo = hi
    THEN child_ids_of([raised |-> FALSE, ids |-> <<results[lo]>>],
                      get_child_pages(results[lo], a))
    ELSE child_ids_of(child_walk(results, lo, (lo + hi) \div 2, a),
                      child_walk(results, (lo + hi) \div 2 + 1, hi, a))

\* One turn of the expansion loop (course_processor.py:43-52, 206-214):
\* what the linked page adds to expanded_ids.  keep_on_error says whether
\* the except branch adds the page itself.
expand_one(page_id, a, keep_on_error) ==
    IF is_page_a_folder(page_id, a)
    THEN LET child_ids == get_child_pages(page_id, a)
         IN  IF child_ids.raised
             THEN IF keep_on_error THEN {page_id} ELSE {}
             ELSE Range(child_ids.ids)
    ELSE {page_id}

expanded_ids(linked_pages, a, keep_on_error) ==
    UNION {expand_one(linked_pages[i], a, keep_on_error) :
              i \in 1..Len(linked_pages)}

\* The pages of page_ids (course_processor.py:36-53, 203-215).
page_id_set(config, a, keep_on_error) ==
    IF config.folder_recursion
    THEN expanded_ids(config.linked_pages, a, keep_on_error)
    ELSE Range(config.linked_pages)

\* The values page_ids can take (course_processor.py:36-53): the linked
\* pages as they are, or the expanded set in the order list() gives it.
resolved_page_ids(config, a, keep_on_error) ==
    IF config.folder_recursion
    THEN Orders(expanded_ids(config.linked_pages, a, keep_on_error))
    ELSE {config.linked_pages}

---------------------------------------------------------------------------
(* VectorStoreService: a collection is the set of its chunk records. *)

get_all_page_ids(docs) == {d.page_id : d \in docs}

delete_page_content(docs, page_id) == {d \in docs : d.page_id # page_id}

\* The records add_page_content builds for a page (vector_store.py:252-267).
chunk_records(page_id, chunks) ==
    {[id           |-> <<page_id, i - 1, chunks[i]>>,
      page_id      |-> page_id,
      chunk_index  |-> i - 1,
      total_chunks |-> Len(chunks)] : i \in 1..Len(chunks)}

\* A collection.add that refuses the whole batch when one of its IDs is
\* already in the collection.
collection_add_strict(docs, records) ==
    IF \E r \in records : r.id \in {d.id : d \in docs}
    THEN [raised |-> TRUE, docs |-> docs]
    ELSE [raised |-> FALSE, docs |-> docs \cup records]

\* collection.add: a record whose ID is already in the collection is left
\* out, the stored record stays as it is, and nothing is raised.
collection_add(docs, records) ==
    [raised |-> FALSE,
     docs   |-> docs \cup {r \in records : r.id \notin {d.id : d \in docs}}]

\* An add_page_content that adds each batch of chunks as soon as it is
\* embedded: a failure of the embedding leaves the first chunk behind.
embed_and_add_partial(docs, page_id, chunks, embed_ok) ==
    IF chunks = <<>> THEN [raised |-> FALSE, docs |-> docs]
    ELSE IF ~embed_ok
    THEN [raised |-> TRUE,
          docs |-> docs \cup {r \in chunk_records(page_id, chunks) : r.chunk_index = 0}]
    ELSE collection_add(docs, chunk_records(page_id, chunks))

\* add_page_content once the content is chunked (vector_store.py:243-278):
\* nothing to do for a page without chunks; otherwise the embeddings are
\* generated first, and a failure there raises before the collection is
\* touched.
embed_and_add(docs, page_id, chunks, embed_ok) ==
    IF chunks = <<>> THEN [raised |-> FALSE, docs |-> docs]
    ELSE IF ~embed_ok THEN [raised |-> TRUE, docs |-> docs]
    ELSE collection_add(docs, chunk_records(page_id, chunks))

\* add_page_content: the content is stripped and chunked, then embedded and
\* added.
add_page_content(docs, page_id, body, embed_ok) ==
    embed_and_add(docs, page_id, PageChunks[body], embed_ok)

---------------------------------------------------------------------------
(* CourseProcessor *)

\* A step 2 with the test turned round: it deletes the stored pages that are
\* among page_ids.
clear_removed_inverted(docs, page_ids) ==
    LET removed == {old_page_id \in get_all_page_ids(docs) :
                       old_page_id \in Range(page_ids)}
    IN  {d \in docs : d.page_id \notin removed}

\* Step 2 of process_course (course_processor.py:57-63): the chunks of every
\* stored page that is not among page_ids are deleted.
clear_removed(docs, page_ids) ==
    LET removed == {old_page_id \in get_all_page_ids(docs) :
                       old_page_id \notin Range(page_ids)}
    IN  {d \in docs : d.page_id \notin removed}

\* What the loop of step 3 keeps of a page once add_page_content returned or
\* raised (course_processor.py:102-117); the collection is as add_page_content
\* left it.
record_page(acc, page_id, w, added) ==
    IF added.raised
    THEN [acc EXCEPT !.docs = added.docs,
                     !.failed = Append(@, [id |-> page_id, error |-> "exception"])]
    ELSE [acc EXCEPT !.docs = added.docs,
                     !.processed =
                         Append(@, [page_id        |-> page_id,
                                    content_length |-> ContentLength[w[page_id].body],
                                    version        |-> w[page_id].version])]

\* One turn of the loop of step 3 (course_processor.py:68-117).
process_page(acc, page_id, w, a) ==
    IF a.page[page_id] = "not_found"
    THEN [acc EXCEPT !.failed = Append(@, [id |-> page_id, error |-> "not found"])]
    ELSE IF a.page[page_id] = "fetch_raise"
    THEN [acc EXCEPT !.failed = Append(@, [id |-> page_id, error |-> "exception"])]
    ELSE record_page(acc, page_id, w,
                     add_page_content(acc.docs, page_id, w[page_id].body,
                                      a.page[page_id] # "embed_fail"))

\* A loop that stops at the first page that fails.
RECURSIVE process_pages_aborting(_, _, _, _)
process_pages_aborting(acc, page_ids, w, a) ==
    IF page_ids = <<>> \/ acc.failed # <<>> THEN acc
    ELSE process_pages_aborting(process_page(acc, Head(page_ids), w, a),
                                Tail(page_ids), w, a)

RECURSIVE process_pages(_, _, _, _)
process_pages(acc, page_ids, w, a) ==
    IF page_ids = <<>> THEN acc
    ELSE process_pages(process_page(acc, Head(page_ids), w, a), Tail(page_ids), w, a)

\* Step 4 (course_processor.py:120-130): the snapshot.  The key
\* processed_pages holds the number of processed pages, the key pages the list.
processing_result(course_id, page_ids, acc) ==
    [course_id       |-> course_id,
     total_pages     |-> Len(page_ids),
     processed_pages |-> Len(acc.processed),
     failed_pages    |-> Len(acc.failed),
     pages           |-> acc.processed,
     failures        |-> acc.failed]

\* process_course from step 2 on, for the page_ids step 1 resolved: the
\* collection it leaves and the snapshot it writes.
run_result(course_id, page_ids, acc) ==
    [docs |-> acc.docs, status |-> processing_result(course_id, page_ids, acc)]

process_course(course_id, page_ids, w, a, docs) ==
    run_result(course_id, page_ids,
               process_pages([docs      |-> clear_removed(docs, page_ids),
                              processed |-> <<>>,
                              failed    |-> <<>>], page_ids, w, a))

\* {p["page_id"] for p in status.get("processed_pages", [])}
\* (course_processor.py:218): iterating a number raises TypeError.
processed_page_ids(status) ==
    IF status.processed_pages \in Nat
    THEN [raised |-> TRUE, ids |-> {}]
    ELSE [raised |-> FALSE,
          ids |-> {status.processed_pages[i].page_id :
                      i \in 1..Len(status.processed_pages)}]

\* The entry of the snapshot the version check compares a page with
\* (course_processor.py:234-237): the first one with the page's ID.
stored_page(status, page_id) ==
    status.processed_pages[CHOOSE i \in 1..Len(status.processed_pages) :
        /\ status.processed_pages[i].page_id = page_id
        /\ \A j \in 1..(i - 1) : status.processed_pages[j].page_id # page_id]

\* The version check of one page (course_processor.py:228-247): a page whose
\* fetch fails or answers nothing is passed over.
version_changed(status, page_id, w, a) ==
    /\ a.page[page_id] \notin {"not_found", "fetch_raise"}
    /\ w[page_id].version > stored_page(status, page_id).version

\* The entry of changed_pages for a page (course_processor.py:242-247).
changed_entry(status, page_id, w) ==
    [page_id     |-> page_id,
     old_version |-> stored_page(status, page_id).version,
     new_version |-> w[page_id].version]

\* A report before anything is known.  The fields after changed_pages are not
\* part of the answer; they keep what the check did: the page set it
\* resolved and the snapshot it read, whether it resolved the pages, the pages
\* it fetched, and the pages the wiki would not serve.
NoReport ==
    [raised |-> FALSE, needs_update |-> FALSE, reason |-> "",
     new_pages |-> {}, deleted_pages |-> {}, changed_pages |-> {},
     current |-> {}, snapshot |-> {}, resolved |-> FALSE, fetched |-> {},
     not_found |-> {}]

\* A report that asks for no processing when there is no snapshot.
never_processed_quiet ==
    [NoReport EXCEPT !.reason = "Course has never been processed"]

\* The report for a course without a snapshot (course_processor.py:193-200).
never_processed ==
    [NoReport EXCEPT !.needs_update = TRUE,
                     !.reason = "Course has never been processed"]

\* _get_update_reason
get_update_reason(new_pages, deleted_pages, changed_pages) ==
    IF new_pages = {} /\ deleted_pages = {} /\ changed_pages = {}
    THEN "No changes detected" ELSE "changes"

\* check_for_updates (course_processor.py:178-260).  snapshot is the set
\* holding the stored snapshot, empty if there is none; page_ids is the list
\* the expansion resolved.
check_for_updates(snapshot, page_ids, w, a) ==
    IF snapshot = {}
    THEN never_processed
    ELSE LET status  == CHOOSE st \in snapshot : TRUE
             stored  == processed_page_ids(status)
             current == Range(page_ids)
             both    == current \cap stored.ids
             changed == {changed_entry(status, page_id, w) :
                            page_id \in {q \in both : version_changed(status, q, w, a)}}
             new     == current \ stored.ids
             deleted == stored.ids \ current
             seen    == [NoReport EXCEPT !.current = current, !.snapshot = snapshot,
                                         !.resolved = TRUE,
                                         !.not_found =
                                             {q \in Pages : a.page[q] \in {"not_found", "fetch_raise"}}]
         IN  IF stored.raised
             THEN [seen EXCEPT !.raised = TRUE, !.reason = "TypeError"]
             ELSE [seen EXCEPT !.needs_update = new # {} \/ deleted # {} \/ changed # {},
                               !.reason = get_update_reason(new, deleted, changed),
                               !.new_pages = new,
                               !.deleted_pages = deleted,
                               !.changed_pages = changed,
                               !.fetched = both]

---------------------------------------------------------------------------
(* GeminiService: the generated course and the quizzes it stores. *)

\* generate_course_content: fails if the model or the embedding of the query
\* fails or if the search finds no chunk; otherwise a course is saved.
generate_course_content(docs, a) ==
    IF a.course = "fail" \/ docs = {}
    THEN [raised |-> TRUE, course |-> {}]
    ELSE [raised |-> FALSE, course |-> {[modules |-> [i \in 1..a.modules |-> i]]}]

final_quiz == <<>>

module_quiz(n) == <<n>>

\* generate_quiz: fails without a generated course, for a module the course
\* does not have, or if the model fails; otherwise the quiz is saved over the
\* one stored for the same course and module.
generate_quiz(course_id, generated, module_number, a, stored) ==
    IF \/ a.quiz = "fail"
       \/ generated = {}
       \/ /\ module_number # final_quiz
          /\ \A co \in generated : module_number[1] \notin Range(co.modules)
    THEN stored
    ELSE stored \cup {[course_id |-> course_id, module_number |-> module_number]}

---------------------------------------------------------------------------
(* The API, each request run to the end of its background task.            *)

\* The configurations a request can carry: a folder, a page linked twice, a
\* folder together with a page below it.
LinkedPages == {<<"P1">>, <<"P3", "P3">>, <<"P1", "P3">>}

Configs ==
    [linked_pages : LinkedPages, folder_recursion : BOOLEAN, test_at_end : BOOLEAN]

NoCollection == [exists |-> FALSE, docs |-> {}]

\* A variant of collection_name that gives every course the same name.
collection_name_shared(course_id) == <<"course">>

\* get_or_create_collection, delete_course_collection: the name of the
\* collection of a course, f"course_{course_id}".
collection_name(course_id) == <<"course", course_id>>

\* get_or_create_collection: the collection a course's name denotes; the model
\* keeps each collection under the course whose name it bears.
get_or_create_collection(course_id) ==
    CHOOSE c \in Courses : collection_name(c) = collection_name(course_id)


NoRun ==
    [faults |-> 0, page_ids |-> <<>>, docs_before |-> {}, snapshot_before |-> {},
     tree |-> [p \in Pages |-> "ok"], page |-> [p \in Pages |-> "ok"]]

\* What a request that runs process_course for course c keeps of the run:
\* the requests that failed, the resolved page_ids, the collection and the
\* snapshot the run found, and how the requests for child pages and for the
\* pages went.
RunOf(c, page_ids, a) ==
    [faults          |-> Faults(a),
     page_ids        |-> page_ids,
     docs_before     |-> collections[get_or_create_collection(c)].docs,
     snapshot_before |-> snapshots[c],
     tree            |-> a.tree,
     page            |-> a.page]

\* The background task of create_config and update_config
\* (onboarding.py:61-91, 131-158): process_course, then generate_course_content,
\* then the final quiz if test_at_end; an exception ends the task.
ProcessAndGenerate(c, config, a) ==
    \E page_ids \in resolved_page_ids(config, a, TRUE) :
    \E run \in {process_course(c, page_ids, wiki, a, collections[get_or_create_collection(c)].docs)} :
    \E gen \in {generate_course_content(run.docs, a)} :
            /\ collections' = [collections EXCEPT ![get_or_create_collection(c)] = [exists |-> TRUE, docs |-> run.docs]]
            /\ snapshots' = [snapshots EXCEPT ![c] = {run.status}]
            /\ gen_courses' = [gen_courses EXCEPT ![c] = IF gen.raised THEN @ ELSE gen.course]
            /\ quizzes' = IF gen.raised \/ ~config.test_at_end THEN quizzes
                          ELSE generate_quiz(c, gen.course, final_quiz, a, quizzes)
            /\ last_run' = RunOf(c, page_ids, a)

Step(name, c) ==
    /\ steps < limits.steps
    /\ steps' = steps + 1
    /\ last_op' = [name |-> name, course |-> c]
    /\ UNCHANGED limits

\* POST /configs
create_config(c, config, a) ==
    /\ configs[c] = {}
    /\ Step("create_config", c)
    /\ configs' = [configs EXCEPT ![c] = {config}]
    /\ ProcessAndGenerate(c, config, a)
    /\ report' = NoReport
    /\ UNCHANGED <<wiki, ck_args, ck, fn_in, fn_out, tasks>>

\* PUT /configs/{id}
update_config(c, config, a) ==
    /\ configs[c] # {}
    /\ Step("update_config", c)
    /\ configs' = [configs EXCEPT ![c] = {config}]
    /\ ProcessAndGenerate(c, config, a)
    /\ report' = NoReport
    /\ UNCHANGED <<wiki, ck_args, ck, fn_in, fn_out, tasks>>

\* POST /configs/{id}/reprocess
reprocess_course(c, a) ==
    /\ configs[c] # {}
    /\ Step("reprocess_course", c)
    /\ \E config \in configs[c] :
       \E page_ids \in resolved_page_ids(config, a, TRUE) :
       \E run \in {process_course(c, page_ids, wiki, a, collections[get_or_create_collection(c)].docs)} :
              /\ collections' = [collections EXCEPT ![get_or_create_collection(c)] = [exists |-> TRUE, docs |-> run.docs]]
              /\ snapshots' = [snapshots EXCEPT ![c] = {run.status}]
              /\ last_run' = RunOf(c, page_ids, a)
    /\ report' = NoReport
    /\ UNCHANGED <<wiki, configs, gen_courses, quizzes, ck_args, ck, fn_in, fn_out, tasks>>

\* DELETE /configs/{id}: storage.delete, delete_course_data and
\* delete_generated_course (onboarding.py:165-176).
delete_config(c) ==
    /\ configs[c] # {}
    /\ Step("delete_config", c)
    /\ configs' = [configs EXCEPT ![c] = {}]
    /\ collections' = [collections EXCEPT ![get_or_create_collection(c)] = NoCollection]
    /\ snapshots' = [snapshots EXCEPT ![c] = {}]
    /\ gen_courses' = [gen_courses EXCEPT ![c] = {}]
    /\ report' = NoReport
    /\ last_run' = NoRun
    /\ UNCHANGED <<wiki, quizzes, ck_args, ck, fn_in, fn_out, tasks>>

\* GET /configs/{id}/check-updates
check_updates(c, a) ==
    /\ configs[c] # {}
    /\ Step("check_for_updates", c)
    /\ \E config \in configs[c] :
       \E page_ids \in (IF snapshots[c] = {} THEN {<<>>}
                        ELSE resolved_page_ids(config, a, FALSE)) :
          report' = check_for_updates(snapshots[c], page_ids, wiki, a)
    /\ last_run' = NoRun
    /\ UNCHANGED <<wiki, configs, collections, snapshots, gen_courses, quizzes,
                   ck_args, ck, fn_in, fn_out, tasks>>

\* POST /configs/{id}/generate-course
generate_course(c, force, a) ==
    /\ configs[c] # {}
    /\ snapshots[c] # {}
    /\ Step("generate_course", c)
    /\ LET gen == generate_course_content(collections[get_or_create_collection(c)].docs, a)
       IN  /\ gen_courses' = [gen_courses EXCEPT ![c] =
                                 IF (@ # {} /\ ~force) \/ gen.raised THEN @ ELSE gen.course]
           /\ collections' = [collections EXCEPT ![get_or_create_collection(c)] =
                                 IF (gen_courses[c] # {} /\ ~force) \/ a.course = "fail"
                                 THEN @ ELSE [@ EXCEPT !.exists = TRUE]]
    /\ report' = NoReport
    /\ last_run' = NoRun
    /\ UNCHANGED <<wiki, configs, snapshots, quizzes, ck_args, ck, fn_in, fn_out, tasks>>

\* POST /configs/{id}/generate-quiz
generate_quiz_request(c, module_number, force, a) ==
    /\ configs[c] # {}
    /\ gen_courses[c] # {}
    /\ Step("generate_quiz", c)
    /\ quizzes' = IF [course_id |-> c, module_number |-> module_number] \in quizzes /\ ~force
                  THEN quizzes
                  ELSE generate_quiz(c, gen_courses[c], module_number, a, quizzes)
    /\ report' = NoReport
    /\ last_run' = NoRun
    /\ UNCHANGED <<wiki, configs, collections, snapshots, gen_courses, ck_args, ck, fn_in, fn_out, tasks>>

\* Somebody edits a page of the wiki: a new version with some document.
edit_page(p, b) ==
    /\ wiki[p].version < MaxVersion
    /\ Step("edit_page", "")
    /\ wiki' = [wiki EXCEPT ![p] = [version |-> @.version + 1, body |-> b]]
    /\ report' = NoReport
    /\ last_run' = NoRun
    /\ UNCHANGED <<configs, collections, snapshots, gen_courses, quizzes, ck_args, ck, fn_in, fn_out, tasks>>

QuizKinds == {final_quiz} \cup {module_quiz(n) : n \in 1..MaxModules}

CourseIdle ==
    /\ wiki = [p \in Pages |-> [version |-> 1,
                                body |-> CASE p = "P1" -> "empty"
                                           [] p = "P2" -> "long"
                                           [] OTHER    -> "short"]]
    /\ configs = [c \in Courses |-> {}]
    /\ collections = [c \in Courses |-> NoCollection]
    /\ snapshots = [c \in Courses |-> {}]
    /\ gen_courses = [c \in Courses |-> {}]
    /\ quizzes = {}
    /\ report = NoReport
    /\ last_op = [name |-> "", course |-> ""]
    /\ last_run = NoRun
    /\ tasks = <<>>
    /\ steps = 0

ChunkIdle ==
    /\ ck_args = [text |-> <<>>, chunk_size |-> 1, overlap |-> 0]
    /\ ck = chunk_call

\* No function is checked by itself.
FnIdle ==
    /\ fn_in = [op |-> "none"]
    /\ fn_out = [op |-> "none"]

\* Behaviours of MaxSteps steps in which no request to the wiki, the
\* embedding service or the model fails.
CourseInit ==
    /\ CourseIdle
    /\ ChunkIdle
    /\ FnIdle
    /\ limits = [steps |-> MaxSteps, faults |-> 0]

\* Behaviours of MaxFaultSteps steps in which up to MaxFaults requests of a run
\* fail.
FaultInit ==
    /\ CourseIdle
    /\ ChunkIdle
    /\ FnIdle
    /\ limits = [steps |-> MaxFaultSteps, faults |-> MaxFaults]

\* The answers a run can get in this behaviour.
Allowed == IF limits.faults = 0 THEN FaultFree ELSE Answers

CourseNext ==
    \/ \E c \in Courses :
          /\ steps < limits.steps /\ configs[c] = {}
          /\ \E config \in Configs, a \in Allowed :
                create_config(c, config, a)
    \/ \E c \in Courses :
          /\ steps < limits.steps /\ configs[c] # {}
          /\ \E config \in Configs, a \in Allowed :
                update_config(c, config, a)
    \/ \E c \in Courses :
          /\ steps < limits.steps /\ configs[c] # {}
          /\ \E a \in Allowed : reprocess_course(c, a)
    \/ \E c \in Courses : delete_config(c)
    \/ \E c \in Courses :
          /\ steps < limits.steps /\ configs[c] # {}
          /\ \E a \in Allowed : check_updates(c, a)
    \/ \E c \in Courses :
          /\ steps < limits.steps /\ configs[c] # {}
          /\ \E force \in BOOLEAN, a \in Allowed :
                generate_course(c, force, a)
    \/ \E c \in Courses :
          /\ steps < limits.steps /\ configs[c] # {}
          /\ \E m \in QuizKinds, force \in BOOLEAN, a \in Allowed :
                generate_quiz_request(c, m, force, a)
    \/ \E p \in Pages, b \in BodyIds : edit_page(p, b)

SpecCourse == CourseInit /\ [][CourseNext]_vars

SpecFaults == FaultInit /\ [][CourseNext]_vars

---------------------------------------------------------------------------
(* The API with its background tasks.  A request stores what it has to and  *)
(* adds its task; the tasks run in the thread pool, a call to the wiki, the *)
(* collection or the model at a time, interleaved with each other and with  *)
(* later requests.                                                          *)

\* A task as background_tasks.add_task leaves it: process_course for the
\* configuration the request holds, followed by the generation if generate.
new_task(c, config, generate) ==
    [course |-> c, config |-> config, generate |-> generate, pc |-> "resolve",
     page_ids |-> <<>>, next |-> 1, processed |-> <<>>, failed |-> <<>>,
     faults |-> 0, docs_before |-> {}, snapshot_before |-> {},
     tree |-> [p \in Pages |-> "ok"], page |-> [p \in Pages |-> "ok"]]

Remove(seq, i) == SubSeq(seq, 1, i - 1) \o SubSeq(seq, i + 1, Len(seq))

\* The task is running process_course.
Processing(t) == t.pc \in {"resolve", "clear", "pages", "persist"}

Spawn(name, c, config, generate) ==
    /\ Len(tasks) < MaxTasks
    /\ Step(name, c)
    /\ tasks' = Append(tasks, new_task(c, config, generate))
    /\ report' = NoReport
    /\ last_run' = NoRun
    /\ UNCHANGED <<wiki, collections, snapshots, gen_courses, quizzes, ck_args, ck, fn_in, fn_out>>

\* POST /configs: storage.create, then the task is added.
post_config(c, config) ==
    /\ configs[c] = {}
    /\ configs' = [configs EXCEPT ![c] = {config}]
    /\ Spawn("post_config", c, config, TRUE)

\* PUT /configs/{id}: storage.update, then the task is added.
put_config(c, config) ==
    /\ configs[c] # {}
    /\ configs' = [configs EXCEPT ![c] = {config}]
    /\ Spawn("put_config", c, config, TRUE)

\* POST /configs/{id}/reprocess
post_reprocess(c) ==
    /\ configs[c] # {}
    /\ \E config \in configs[c] : Spawn("post_reprocess", c, config, FALSE)
    /\ UNCHANGED configs

TaskFrame == UNCHANGED <<ck_args, ck, fn_in, fn_out, wiki, configs, report, steps, limits>>

\* Step 1 of process_course: the page IDs are resolved.
task_resolve(i, a) ==
    /\ tasks[i].pc = "resolve"
    /\ \E page_ids \in resolved_page_ids(tasks[i].config, a, TRUE) :
          tasks' = [tasks EXCEPT ![i].pc = "clear",
                                 ![i].page_ids = page_ids,
                                 ![i].faults = Faults(a),
                                 ![i].tree = a.tree]
    /\ TaskFrame
    /\ UNCHANGED <<collections, snapshots, gen_courses, quizzes, last_op, last_run>>

\* Step 2: the chunks of the pages no longer resolved are deleted.
task_clear(i) ==
    LET t == tasks[i]
    IN  /\ t.pc = "clear"
        /\ collections' = [collections EXCEPT ![get_or_create_collection(t.course)] =
                              [exists |-> TRUE,
                               docs |-> clear_removed(@.docs, t.page_ids)]]
        /\ tasks' = [tasks EXCEPT ![i].pc = IF t.page_ids = <<>> THEN "persist" ELSE "pages",
                                  ![i].docs_before = collections[get_or_create_collection(t.course)].docs,
                                  ![i].snapshot_before = snapshots[t.course]]
        /\ TaskFrame
        /\ UNCHANGED <<snapshots, gen_courses, quizzes, last_op, last_run>>

\* Step 3, one page: fetched, chunked, embedded and added.
task_page(i, a) ==
    LET t   == tasks[i]
        acc == process_page([docs |-> collections[get_or_create_collection(t.course)].docs,
                             processed |-> t.processed, failed |-> t.failed],
                            t.page_ids[t.next], wiki, a)
    IN  /\ t.pc = "pages"
        /\ collections' = [collections EXCEPT ![get_or_create_collection(t.course)] =
                              [exists |-> TRUE, docs |-> acc.docs]]
        /\ tasks' = [tasks EXCEPT ![i].pc = IF t.next = Len(t.page_ids)
                                            THEN "persist" ELSE "pages",
                                  ![i].next = t.next + 1,
                                  ![i].processed = acc.processed,
                                  ![i].failed = acc.failed,
                                  ![i].faults = t.faults + Faults(a),
                                  ![i].page[t.page_ids[t.next]] =
                                      a.page[t.page_ids[t.next]]]
        /\ TaskFrame
        /\ UNCHANGED <<snapshots, gen_courses, quizzes, last_op, last_run>>

\* Step 4: the snapshot is written; a task of reprocess ends here.
task_persist(i) ==
    LET t == tasks[i]
    IN  /\ t.pc = "persist"
        /\ snapshots' = [snapshots EXCEPT ![t.course] =
                            {processing_result(t.course, t.page_ids,
                                [processed |-> t.processed, failed |-> t.failed])}]
        /\ tasks' = IF t.generate THEN [tasks EXCEPT ![i].pc = "course"]
                    ELSE Remove(tasks, i)
        /\ last_op' = [name |-> "process_course", course |-> t.course]
        /\ last_run' = [faults |-> t.faults, page_ids |-> t.page_ids,
                        docs_before |-> t.docs_before,
                        snapshot_before |-> t.snapshot_before,
                        tree |-> t.tree, page |-> t.page]
        /\ TaskFrame
        /\ UNCHANGED <<collections, gen_courses, quizzes>>

\* generate_course_content; an exception ends the task.
task_course(i, a) ==
    LET t   == tasks[i]
        gen == generate_course_content(collections[get_or_create_collection(t.course)].docs, a)
    IN  /\ t.pc = "course"
        /\ gen_courses' = [gen_courses EXCEPT ![t.course] =
                              IF gen.raised THEN @ ELSE gen.course]
        /\ collections' = [collections EXCEPT ![get_or_create_collection(t.course)] =
                              IF a.course = "fail" THEN @ ELSE [@ EXCEPT !.exists = TRUE]]
        /\ tasks' = IF gen.raised \/ ~t.config.test_at_end THEN Remove(tasks, i)
                    ELSE [tasks EXCEPT ![i].pc = "quiz"]
        /\ TaskFrame
        /\ UNCHANGED <<snapshots, quizzes, last_op, last_run>>

\* generate_quiz for the final quiz.
task_quiz(i, a) ==
    LET t == tasks[i]
    IN  /\ t.pc = "quiz"
        /\ quizzes' = generate_quiz(t.course, gen_courses[t.course], final_quiz, a, quizzes)
        /\ tasks' = Remove(tasks, i)
        /\ TaskFrame
        /\ UNCHANGED <<collections, snapshots, gen_courses, last_op, last_run>>

ApiInit ==
    /\ CourseIdle
    /\ ChunkIdle
    /\ FnIdle
    /\ limits = [steps |-> MaxApiSteps, faults |-> 0]

ApiNext ==
    \/ \E c \in Courses, config \in Configs : post_config(c, config)
    \/ \E c \in Courses, config \in Configs : put_config(c, config)
    \/ \E c \in Courses : post_reprocess(c)
    \/ \E c \in Courses : delete_config(c)
    \/ \E c \in Courses :
          /\ steps < limits.steps /\ configs[c] # {}
          /\ \E a \in Allowed : check_updates(c, a)
    \/ \E p \in Pages, b \in BodyIds : edit_page(p, b)
    \/ \E i \in 1..Len(tasks), a \in Allowed : task_resolve(i, a)
    \/ \E i \in 1..Len(tasks) : task_clear(i)
    \/ \E i \in 1..Len(tasks), a \in Allowed : task_page(i, a)
    \/ \E i \in 1..Len(tasks) : task_persist(i)
    \/ \E i \in 1..Len(tasks), a \in Allowed : task_course(i, a)
    \/ \E i \in 1..Len(tasks), a \in Allowed : task_quiz(i, a)

SpecApi == ApiInit /\ [][ApiNext]_vars

---------------------------------------------------------------------------
(* The chunker specification: chunk_text called on every small input and    *)
(* run one loop iteration per step.                                          *)

\* A full stop or question mark is a sentence terminator when a space follows
\* it and an ordinary character otherwise.
Alphabet == {" ", ".", "?"}

Texts == UNION {[1..n -> Alphabet] : n \in 0..MaxTextLen}

ChunkArgs == [text : Texts, chunk_size : 1..MaxChunkSize, overlap : 0..MaxOverlap]

\* A text as add_page_content hands it to chunk_text, with the default
\* chunk_size and overlap: a sentence of two characters, then a run without
\* sentence or word boundary that is longer than a chunk.
GapText ==
    [i \in 1..GapLen |-> IF i = 2 THEN "." ELSE IF i = 3 THEN " " ELSE "?"]

DefaultArgs ==
    {[text |-> GapText, chunk_size |-> DefaultChunkSize, overlap |-> DefaultOverlap]}

ChunkInit ==
    /\ ck_args \in ChunkArgs \cup DefaultArgs
    /\ ck = chunk_call
    /\ CourseIdle
    /\ FnIdle
    /\ limits = [steps |-> 0, faults |-> 0]

ChunkCall ==
    /\ ck.pc = "call"
    /\ ck' = chunk_entry(ck_args)
    /\ UNCHANGED <<ck_args, course_vars, fn_in, fn_out>>

ChunkStep ==
    /\ ck.pc = "loop"
    /\ ck' = chunk_iter(ck_args, ck)
    /\ UNCHANGED <<ck_args, course_vars, fn_in, fn_out>>

ChunkNext == ChunkCall \/ ChunkStep

SpecChunk == ChunkInit /\ [][ChunkNext]_vars

---------------------------------------------------------------------------
(* The resolution of the page set by itself: step 1 of process_course and   *)
(* the same step of check_for_updates, for one configuration and one set of *)
(* answers of the wiki.  Pages are numbered here.                           *)

\* A folder with more children than one request returns, and the pages
\* around it.
ResolvePages == 0..(ChildLimit + 1)

\* The pages a configuration links to and a request can fail for.
NearPages == {0, 1, 2}

\* The page trees: page 0 holds 1 and 1 holds 2; page 0 holds 1 and 2; page 0
\* holds the pages 1 .. ChildLimit + 1.
TreeShapes == {"chain", "flat", "wide"}

tree_children(shape) ==
    [p \in ResolvePages |->
        CASE shape = "chain" /\ p = 0 -> <<1>>
          [] shape = "chain" /\ p = 1 -> <<2>>
          [] shape = "flat" /\ p = 0  -> <<1, 2>>
          [] shape = "wide" /\ p = 0  -> [i \in 1..(ChildLimit + 1) |-> i]
          [] OTHER                     -> <<>>]

\* The answers of the wiki over a tree: nothing fails, or the requests about
\* one page do.
tree_answers(shape) ==
    [tree |-> [p \in ResolvePages |-> "ok"], page |-> [p \in ResolvePages |-> "ok"],
     course |-> "ok", quiz |-> "ok", modules |-> 1,
     children |-> tree_children(shape)]

ResolveAnswers ==
    UNION {{tree_answers(shape)}
             \cup {[tree_answers(shape) EXCEPT !.tree[p] = t] :
                      p \in NearPages, t \in TreeAnswers \ {"ok"}} :
           shape \in TreeShapes}

ResolveConfigs ==
    [linked_pages : UNION {[1..n -> NearPages] : n \in 1..MaxLinked},
     folder_recursion : BOOLEAN, test_at_end : {FALSE}]

ResolveInit ==
    /\ fn_in \in [op : {"resolve"}, config : ResolveConfigs, answers : ResolveAnswers]
    /\ fn_out = [op |-> "none"]
    /\ CourseIdle
    /\ ChunkIdle
    /\ limits = [steps |-> 0, faults |-> 0]

\* Both resolutions of the same configuration against the same answers.
ResolveStep ==
    /\ fn_in.op = "resolve"
    /\ fn_out.op = "none"
    /\ fn_out' = [op      |-> "resolve",
                  process |-> page_id_set(fn_in.config, fn_in.answers, TRUE),
                  check   |-> page_id_set(fn_in.config, fn_in.answers, FALSE)]
    /\ UNCHANGED <<fn_in, ck_args, ck, course_vars>>

ResolveNext == ResolveStep

SpecResolve == ResolveInit /\ [][ResolveNext]_vars

---------------------------------------------------------------------------
(* GeminiService._call_gemini_with_retry, one loop iteration at a time.     *)

\* What one call of model.generate_content can do: answer with a text, answer
\* with the empty text, answer with nothing (no response or no text
\* attribute), raise.
CallOutcomes == {"text", "blank", "empty", "raise"}

\* The call has not returned.
retry_call == [pc |-> "loop", attempt |-> 0, calls |-> 0, result |-> "pending",
               from_call |-> 0, raised |-> FALSE]

\* A variant of retry_attempt in which the exception of the last attempt
\* reaches the caller.
retry_attempt_raising(st, max_retries, outcome) ==
    IF st.attempt >= max_retries
    THEN [st EXCEPT !.pc = "done", !.result = "None"]
    ELSE CASE outcome \in {"text", "blank"} ->
                 [st EXCEPT !.pc = "done", !.calls = @ + 1, !.result = outcome,
                            !.from_call = st.attempt + 1]
           [] outcome = "empty" ->
                 [st EXCEPT !.calls = @ + 1, !.attempt = @ + 1]
           [] OTHER ->
                 IF st.attempt = max_retries - 1
                 THEN [st EXCEPT !.pc = "done", !.calls = @ + 1, !.raised = TRUE]
                 ELSE [st EXCEPT !.calls = @ + 1, !.attempt = @ + 1]

\* One evaluation of "for attempt in range(max_retries)": the loop is over
\* and None is returned, or generate_content is called and its text is
\* returned, or the attempt is given up (continue, or the except branch,
\* which returns None on the last attempt).
retry_attempt(st, max_retries, outcome) ==
    IF st.attempt >= max_retries
    THEN [st EXCEPT !.pc = "done", !.result = "None"]
    ELSE CASE outcome \in {"text", "blank"} ->
                 [st EXCEPT !.pc = "done", !.calls = @ + 1, !.result = outcome,
                            !.from_call = st.attempt + 1]
           [] outcome = "empty" ->
                 [st EXCEPT !.calls = @ + 1, !.attempt = @ + 1]
           [] OTHER ->
                 IF st.attempt = max_retries - 1
                 THEN [st EXCEPT !.pc = "done", !.calls = @ + 1, !.result = "None"]
                 ELSE [st EXCEPT !.calls = @ + 1, !.attempt = @ + 1]

\* A call with max_retries attempts allowed, and what each call of
\* generate_content would do.
RetryInit ==
    /\ fn_in \in [op : {"retry"}, max_retries : 0..MaxRetries,
                  outcomes : [1..MaxRetries -> CallOutcomes]]
    /\ fn_out = retry_call
    /\ CourseIdle
    /\ ChunkIdle
    /\ limits = [steps |-> 0, faults |-> 0]

RetryStep ==
    /\ fn_in.op = "retry"
    /\ fn_out.pc = "loop"
    /\ fn_out' = retry_attempt(fn_out, fn_in.max_retries,
                               fn_in.outcomes[Min(fn_out.attempt + 1, MaxRetries)])
    /\ UNCHANGED <<fn_in, ck_args, ck, course_vars>>

RetryNext == RetryStep

\* The loop is a sequential program: a step that can be taken is taken.
SpecRetry == RetryInit /\ [][RetryNext]_vars /\ WF_vars(RetryNext)

---------------------------------------------------------------------------
(* GeminiService: what the model answers and what is read out of it.        *)

\* A Python value json.loads can give, as far as the service looks at it:
\* its type, its items if it is an array, its number of keys or its value.
PyNone == [type |-> "None", items |-> <<>>, n |-> 0]

PyArray(items) == [type |-> "array", items |-> items, n |-> Len(items)]

PyObject(n) == [type |-> "object", items |-> <<>>, n |-> n]

PyNumber(n) == [type |-> "number", items |-> <<>>, n |-> n]

\* bool(value)
truthy(v) ==
    CASE v.type = "array"  -> v.items # <<>>
      [] v.type = "object" -> v.n > 0
      [] v.type = "number" -> v.n # 0
      [] OTHER             -> FALSE

\* What _call_gemini_with_retry hands back: None, the empty text, or a text
\* that is JSON or not, bare, inside a pair of code fences or after a fence
\* that is never closed.
NoReply == [kind |-> "None", fence |-> "bare", json |-> FALSE, value |-> PyNone]

BlankReply == [kind |-> "blank", fence |-> "bare", json |-> FALSE, value |-> PyNone]

Garbage == [kind |-> "text", fence |-> "bare", json |-> FALSE, value |-> PyNone]

JsonReply(fence, v) == [kind |-> "text", fence |-> fence, json |-> TRUE, value |-> v]

\* _extract_json_from_response behind "if response_text": the fences are
\* removed if the pattern matches, and json.loads gives the value or fails.
extract_json_from_response(reply) ==
    IF reply.kind # "text" THEN PyNone
    ELSE IF reply.fence = "open" \/ ~reply.json THEN PyNone
    ELSE reply.value

\* The replies in which no generation call gives parseable output.
FailedReplies ==
    {NoReply, BlankReply, Garbage} \cup {JsonReply("open", PyObject(1))}

---------------------------------------------------------------------------
(* GeminiService: the search results the generator works from.              *)

\* The chunk texts an index can hold: a text too short for a quiz question,
\* three sentences, a chunk of DefaultChunkSize characters.
TextKinds == {"tiny", "prose", "full"}

chunk_body(kind) ==
    CASE kind = "tiny"  -> <<"a", "b", ".">>
      [] kind = "prose" -> [i \in 1..(3 * SentenceLen) |->
                               IF i % SentenceLen = 0 THEN " "
                               ELSE IF i % SentenceLen = SentenceLen - 1 THEN "."
                               ELSE "c"]
      [] OTHER          -> [i \in 1..DefaultChunkSize |->
                               IF i % SentenceLen = 0 THEN " "
                               ELSE IF i % SentenceLen = SentenceLen - 1 THEN "."
                               ELSE "c"]

\* len(chunk)
BodyLength ==
    [tiny |-> Len(chunk_body("tiny")), prose |-> Len(chunk_body("prose")),
     full |-> Len(chunk_body("full"))]

\* How many chunks of a page the index holds, by the text of the chunks.
chunks_per_page(kind) == IF kind = "full" THEN 3 ELSE 1

\* The index of a course with the given number of pages: for each page its
\* chunks, ranked by page and position.
index_docs(pages, kind) ==
    {[page_id |-> p, page_title |-> <<"title", p>>, text |-> kind,
      rank |-> (p - 1) * chunks_per_page(kind) + k] :
        p \in 1..pages, k \in 1..chunks_per_page(kind)}

\* search_similar: the n_results best chunks, best first; the embedding of
\* the query can fail.
search_similar(docs, n_results) ==
    [r \in 1..Min(n_results, Cardinality(docs)) |->
        CHOOSE d \in docs : d.rank = r]

\* list(pages_content.items()): the pages of the results in the order of
\* their first result, each with its title (gemini_service.py:167-180, 229).
first_of_page(results, i) ==
    \A j \in 1..(i - 1) : results[j].page_id # results[i].page_id

pages_list(results) ==
    LET firsts == {i \in 1..Len(results) : first_of_page(results, i)}
    IN  [k \in 1..Cardinality(firsts) |->
            LET i == CHOOSE i \in firsts : Cardinality({j \in firsts : j < i}) = k - 1
            IN  [id |-> results[i].page_id, title |-> results[i].page_title]]

---------------------------------------------------------------------------
(* GeminiService.generate_course_content, with its fallbacks.               *)

\* A variant of module_pages that neither gives a module one page at least
\* nor gives the last module the rest.
module_pages_floor(pages, num_modules, i) ==
    Slice(pages, i * (Len(pages) \div num_modules),
          i * (Len(pages) \div num_modules) + (Len(pages) \div num_modules))

\* A variant of module_pages in which the last module is cut like the others.
module_pages_even(pages, num_modules, i) ==
    Slice(pages, i * Max({1, Len(pages) \div num_modules}),
          i * Max({1, Len(pages) \div num_modules})
              + Max({1, Len(pages) \div num_modules}))

\* pages_list[start_idx:end_idx] of module i, counted from 0
\* (gemini_service.py:230-236).
module_pages(pages, num_modules, i) ==
    Slice(pages, i * Max({1, Len(pages) \div num_modules}),
          IF i < num_modules - 1
          THEN i * Max({1, Len(pages) \div num_modules})
                   + Max({1, Len(pages) \div num_modules})
          ELSE Len(pages))

titles_of(pages) == [k \in 1..Len(pages) |-> pages[k].title]

\* A module of the outline as _generate_module_content reads it.
module_info(number, pages) ==
    [module_number |-> number, title |-> pages[1].title,
     topics |-> titles_of(pages), ok |-> TRUE]

\* The fallback outline (gemini_service.py:226-246): a module for every
\* i in range(num_modules) whose slice of the pages is not empty.
fallback_structure(pages, num_modules) ==
    LET slices == [i \in 1..num_modules |->
                      [number |-> i, pages |-> module_pages(pages, num_modules, i - 1)]]
        kept   == SelectSeq(slices, LAMBDA s : s.pages # <<>>)
    IN  [k \in 1..Len(kept) |-> module_info(kept[k].number, kept[k].pages)]

\* The outlines the model can answer with: arrays of modules that have the
\* keys the prompt asks for, or lack them.
PlanItems ==
    {[module_number |-> 2, title |-> <<"title", 0>>, topics |-> <<>>, ok |-> TRUE],
     [module_number |-> 0, title |-> <<"title", 0>>, topics |-> <<>>, ok |-> FALSE]}

\* len(chunk) of the first k results, and the text "\n\n".join makes of them.
RECURSIVE text_length(_, _)
text_length(results, k) ==
    IF k = 0 THEN 0
    ELSE BodyLength[results[k].text] + text_length(results, k - 1)

joined_length(results, k) ==
    IF k = 0 THEN 0 ELSE text_length(results, k) + 2 * (k - 1)

\* chunks_to_use (gemini_service.py:348-358): the results up to the first
\* one that would take the text past max_length.
chunks_to_use(results) ==
    Max({k \in 0..Len(results) :
            \A j \in 1..k : text_length(results, j) <= MaxFallbackLength})

\* The content of a module made without the model (gemini_service.py:361,
\* 369): the chunks, or a sentence that sends the reader to the source.
fallback_content(results) ==
    IF joined_length(results, chunks_to_use(results)) > 0
    THEN [source |-> "chunks",
          length |-> joined_length(results, chunks_to_use(results))]
    ELSE [source |-> "placeholder", length |-> PlaceholderLength]

\* _generate_module_content: the answer of the model if it is a value that is
\* true, which must be an object to be merged into the module and has a
\* content (of some length, here 1) only if it has the four keys the prompt
\* asks for; otherwise the fallback. A module of the outline without title or description raises.
generate_module_content(info, results, reply) ==
    LET value == extract_json_from_response(reply)
    IN  IF ~info.ok THEN [raised |-> TRUE]
        ELSE IF ~truthy(value)
        THEN [raised |-> FALSE, module_number |-> info.module_number,
              title |-> info.title, topics |-> info.topics,
              content |-> fallback_content(results)]
        ELSE IF value.type # "object" THEN [raised |-> TRUE]
        ELSE [raised |-> FALSE, module_number |-> info.module_number,
              title |-> info.title, topics |-> info.topics,
              content |-> [source |-> "reply",
                           length |-> IF value.n >= 4 THEN 1 ELSE 0]]

\* module_structure (gemini_service.py:219-246): the outline of the model
\* if it is a value that is true, otherwise the fallback, which divides by
\* num_modules.
module_structure(pages, num_modules, reply) ==
    LET value == extract_json_from_response(reply)
    IN  IF truthy(value)
        THEN IF value.type = "array"
             THEN [raised |-> FALSE, modules |-> value.items]
             ELSE [raised |-> TRUE, modules |-> <<>>]
        ELSE IF num_modules = 0
        THEN [raised |-> TRUE, modules |-> <<>>]
        ELSE [raised |-> FALSE, modules |-> fallback_structure(pages, num_modules)]

\* The world of one request to the generator: the model is configured or
\* not, the embedding of a query fails or not.
GeminiEnvs == {"ok", "no_model", "embed_fail"}

\* generate_course_content: raises without model, without embedding or
\* without search results; the outline; a module for each of its entries;
\* the course that _save_course writes.
generate_course_data(docs, num_modules, env, plan_reply, module_reply) ==
    LET results   == search_similar(docs, CourseResults)
        structure == module_structure(pages_list(results), num_modules, plan_reply)
        modules   == [k \in 1..Len(structure.modules) |->
                         generate_module_content(structure.modules[k],
                             search_similar(docs, ModuleResults), module_reply)]
    IN  IF env # "ok" \/ results = <<>> \/ structure.raised
           \/ \E k \in 1..Len(modules) : modules[k].raised
        THEN [raised |-> TRUE, course |-> {}]
        ELSE [raised |-> FALSE,
              course |-> {[total_modules |-> Len(modules), modules |-> modules,
                           source_pages |-> pages_list(results)]}]

---------------------------------------------------------------------------
(* GeminiService.generate_quiz and submit_quiz_answers.                     *)

\* "\n\n".join of the texts of the results.
RECURSIVE joined_text(_, _)
joined_text(results, k) ==
    IF k = 0 THEN <<>>
    ELSE IF k = 1 THEN chunk_body(results[1].text)
    ELSE joined_text(results, k - 1) \o <<"\n", "\n">> \o chunk_body(results[k].text)

\* len(piece) for the pieces of text.split('. '), in order.
split_lengths(text) ==
    LET seps  == {i \in 1..(Len(text) - 1) : text[i] = "." /\ text[i + 1] = " "}
        sep(k) == CHOOSE i \in seps : Cardinality({j \in seps : j < i}) = k - 1
        n     == Cardinality(seps)
    IN  [k \in 1..(n + 1) |->
            (IF k = n + 1 THEN Len(text) ELSE sep(k) - 1)
                - (IF k = 1 THEN 1 ELSE sep(k - 1) + 2) + 1]

\* A question of the fallback and the placeholder question
\* (gemini_service.py:531-555): four options, the first of them correct.
fallback_question ==
    [options |-> 4, correct_answer |-> 0, ok |-> TRUE, source |-> "snippet"]

placeholder_question ==
    [options |-> 4, correct_answer |-> 0, ok |-> TRUE, source |-> "placeholder"]

\* A variant of fallback_questions without the placeholder.
fallback_questions_bare(results, num_questions) ==
    LET lengths  == split_lengths(Slice(joined_text(results,
                        Min(Len(results), QuizSourceResults)), 0, SnippetSource))
        snippets == SubSeq(lengths, 1, Min(num_questions, Len(lengths)))
        long     == SelectSeq(snippets, LAMBDA l : l >= MinSnippet)
    IN  [k \in 1..Len(long) |-> fallback_question]

\* The questions made without the model (gemini_service.py:522-555): one
\* for each of the first num_questions sentences of the source that has
\* MinSnippet characters; the placeholder if there is none.
fallback_questions(results, num_questions) ==
    LET lengths  == split_lengths(Slice(joined_text(results,
                        Min(Len(results), QuizSourceResults)), 0, SnippetSource))
        snippets == SubSeq(lengths, 1, Min(num_questions, Len(lengths)))
        long     == SelectSeq(snippets, LAMBDA l : l >= MinSnippet)
    IN  IF long = <<>> THEN <<placeholder_question>>
        ELSE [k \in 1..Len(long) |-> fallback_question]

\* The indexes a course can have, and the fallback questions for each of them
\* and each num_questions.
Indexes == {index_docs(pages, kind) : pages \in 0..MaxIndexPages, kind \in TextKinds}

FallbackQuestions ==
    [docs \in Indexes |->
        [n \in 0..MaxAsked |->
            fallback_questions(search_similar(docs, QuizResults), n)]]

\* The questions the model can answer with: as the prompt asks; with a
\* correct_answer that is no index of the options; without the keys.
QuizItems ==
    {[options |-> 4, correct_answer |-> 2, ok |-> TRUE,  source |-> "reply"],
     [options |-> 4, correct_answer |-> 4, ok |-> TRUE,  source |-> "reply"],
     [options |-> 4, correct_answer |-> 0, ok |-> FALSE, source |-> "reply"]}

\* len(questions): an array or an object has a length, a number has none.
py_len(v) == IF v.type = "array" THEN Len(v.items) ELSE v.n

\* The module a quiz is about: None for the final quiz.
NoModule == 0

\* "{course_id}_final.json" and "{course_id}_module_{n}.json"
quiz_file(course_id, module_number) ==
    IF module_number = NoModule THEN <<course_id, "final">>
    ELSE <<course_id, "module", module_number>>

\* A variant of get_quiz that takes any quiz of the course.
get_quiz_any(stored, course_id, module_number) ==
    {q \in stored : q.course_id = course_id}

\* get_quiz: the quiz in the file of the course and module, if there is one.
get_quiz(stored, course_id, module_number) ==
    {q \in stored : q.file = quiz_file(course_id, module_number)}

\* _save_quiz: the file is written over.
save_quiz(stored, quiz) == {q \in stored : q.file # quiz.file} \cup {quiz}

\* generate_quiz: raises without model, without generated course, for a
\* module the course does not have, without embedding, and for an answer
\* of the model that has no length; the questions are the answer of the
\* model if it is a value that is true, otherwise the fallback.
generate_quiz_data(stored, generated, docs, course_id, module_number, num_questions, env, reply) ==
    LET value     == extract_json_from_response(reply)
        questions == IF truthy(value) THEN value
                     ELSE PyArray(FallbackQuestions[docs][num_questions])
    IN  IF \/ env # "ok"
           \/ generated = {}
           \/ /\ module_number # NoModule
              /\ \A co \in generated : \A k \in 1..Len(co.modules) :
                    co.modules[k].module_number # module_number
           \/ questions.type = "number"
        THEN [raised |-> TRUE, quizzes |-> stored]
        ELSE [raised |-> FALSE,
              quizzes |-> save_quiz(stored,
                  [file            |-> quiz_file(course_id, module_number),
                   course_id       |-> course_id,
                   module_number   |-> module_number,
                   total_questions |-> py_len(questions),
                   questions       |-> questions])]

\* A variant of score_tenths that cuts the score instead of rounding it.
score_tenths_cut(correct_count, total) == (1000 * correct_count) \div total

\* round(score_percentage, 1), in tenths of a percent: the nearest tenth,
\* the even one of two that are equally near.
score_tenths(correct_count, total) ==
    LET q == (1000 * correct_count) \div total
        r == (1000 * correct_count) % total
    IN  IF 2 * r < total THEN q
        ELSE IF 2 * r > total THEN q + 1
        ELSE IF q % 2 = 0 THEN q ELSE q + 1

\* The loop of submit_quiz_answers reads question["correct_answer"],
\* question["explanation"] and options[correct_answer] of every question.
gradable(questions) ==
    /\ questions.type = "array"
    /\ \A i \in 1..Len(questions.items) :
          /\ questions.items[i].ok
          /\ questions.items[i].correct_answer < questions.items[i].options

correct_count(questions, user_answers) ==
    Cardinality({i \in 1..Len(user_answers) :
                    user_answers[i] = questions.items[i].correct_answer})

NoGrade ==
    [raised |-> FALSE, error |-> "", total_questions |-> 0, correct_answers |-> 0,
     score_tenths |-> 0, passed |-> FALSE]

\* submit_quiz_answers (gemini_service.py:601-657).
submit_quiz_answers(stored, course_id, module_number, user_answers) ==
    LET found == get_quiz(stored, course_id, module_number)
        quiz  == CHOOSE q \in found : TRUE
    IN  IF found = {}
        THEN [NoGrade EXCEPT !.raised = TRUE, !.error = "not_found"]
        ELSE IF Len(user_answers) # py_len(quiz.questions)
        THEN [NoGrade EXCEPT !.raised = TRUE, !.error = "length"]
        ELSE IF ~gradable(quiz.questions)
        THEN [NoGrade EXCEPT !.raised = TRUE, !.error = "question"]
        ELSE [NoGrade EXCEPT
                 !.total_questions = Len(user_answers),
                 !.correct_answers = correct_count(quiz.questions, user_answers),
                 !.score_tenths = score_tenths(
                     correct_count(quiz.questions, user_answers), Len(user_answers)),
                 !.passed = 100 * correct_count(quiz.questions, user_answers)
                                >= PassMark * Len(user_answers)]

---------------------------------------------------------------------------
(* Requests to the generator for one course with a given index.             *)

\* The course the requests are for.
GeminiCourse == "c1"

\* How a reply is read: no parseable output, a value that is false, a value.
reply_class(reply) ==
    IF reply \in FailedReplies THEN "failed"
    ELSE IF ~truthy(extract_json_from_response(reply)) THEN "falsy"
    ELSE "value"

ItemSeqs(items) == UNION {[1..n -> items] : n \in 0..MaxItems}

\* What the model can answer to the prompt for the outline.
PlanReplies ==
    FailedReplies
    \cup {JsonReply("bare", PyArray(items)) : items \in ItemSeqs(PlanItems)}
    \cup {JsonReply("closed", PyArray(<<CHOOSE i \in PlanItems : i.ok>>)),
          JsonReply("bare", PyObject(1)), JsonReply("bare", PyNumber(1)),
          JsonReply("bare", PyNone)}

\* What the model can answer to the prompt for the content of a module.
ModuleReplies ==
    FailedReplies
    \cup {JsonReply("bare", PyObject(4)), JsonReply("closed", PyObject(1)),
          JsonReply("bare", PyObject(0)), JsonReply("bare", PyArray(<<PyNone>>))}

\* What the model can answer to the prompt for the questions of a quiz.
QuizReplies ==
    FailedReplies
    \cup {JsonReply("bare", PyArray(items)) : items \in ItemSeqs(QuizItems)}
    \cup {JsonReply("closed", PyArray(<<CHOOSE i \in QuizItems : i.correct_answer = 2>>)),
          JsonReply("bare", PyObject(1)), JsonReply("bare", PyNumber(1)),
          JsonReply("bare", PyNumber(0))}

\* The answers a submission can hold: an index of an option, or none.
AnswerValues == {0, 2, 4}

Submissions == UNION {[1..n -> AnswerValues] : n \in 0..MaxSubmitted}

NoRequest ==
    [op |-> "none", module_number |-> NoModule, asked |-> 0, answers |-> <<>>,
     env |-> "ok", plan |-> "", module |-> "", quiz |-> ""]

NoResult == [op |-> "none", raised |-> FALSE, grade |-> NoGrade]

\* The store of the generator: nothing is stored but the index.
GeminiIdle ==
    /\ quizzes = {}
    /\ fn_in = NoRequest
    /\ fn_out = NoResult
    /\ wiki = [p \in Pages |-> [version |-> 1, body |-> "empty"]]
    /\ configs = [c \in Courses |-> {}]
    /\ snapshots = [c \in Courses |-> {}]
    /\ report = NoReport
    /\ last_op = [name |-> "", course |-> ""]
    /\ last_run = NoRun
    /\ tasks = <<>>
    /\ steps = 0
    /\ ChunkIdle

\* A course with an index and no generated course.
GeminiInit ==
    /\ \E docs \in Indexes :
          collections = [c \in Courses |-> [exists |-> TRUE, docs |-> docs]]
    /\ gen_courses = [c \in Courses |-> {}]
    /\ limits = [steps |-> MaxGeminiSteps, faults |-> 0]
    /\ GeminiIdle

\* The outline of MaxItems modules the model answers with when it answers
\* as the prompt asks.
GoodPlan ==
    JsonReply("bare", PyArray([k \in 1..MaxItems |-> CHOOSE i \in PlanItems : i.ok]))

\* A course with an index, after generate_course_content has run for it with
\* the fallback outline or with an outline of the model: the course is
\* generated, or is not if the index is empty.
QuizInit ==
    /\ \E docs \in Indexes, plan \in {NoReply, GoodPlan} :
          /\ collections = [c \in Courses |-> [exists |-> TRUE, docs |-> docs]]
          /\ gen_courses =
                [c \in Courses |->
                    IF c = GeminiCourse
                    THEN generate_course_data(docs, MaxAsked, "ok", plan, NoReply).course
                    ELSE {}]
    /\ limits = [steps |-> MaxQuizSteps, faults |-> 0]
    /\ GeminiIdle

GeminiFrame ==
    /\ steps < limits.steps
    /\ steps' = steps + 1
    /\ UNCHANGED <<wiki, configs, collections, snapshots, report, last_op,
                   last_run, tasks, limits, ck_args, ck>>

\* generate_course_content(course_id, ..., num_modules)
GenerateCourse(num_modules, env, plan_reply, module_reply) ==
    /\ GeminiFrame
    /\ \E r \in {generate_course_data(collections[GeminiCourse].docs, num_modules,
                                      env, plan_reply, module_reply)} :
          /\ gen_courses' = [gen_courses EXCEPT ![GeminiCourse] =
                                IF r.raised THEN @ ELSE r.course]
          /\ fn_out' = [NoResult EXCEPT !.op = "generate_course", !.raised = r.raised]
    /\ fn_in' = [NoRequest EXCEPT !.op = "generate_course", !.asked = num_modules,
                                  !.env = env, !.plan = reply_class(plan_reply),
                                  !.module = reply_class(module_reply)]
    /\ UNCHANGED quizzes

\* generate_quiz(course_id, module_number, num_questions)
GenerateQuiz(module_number, num_questions, env, reply) ==
    /\ GeminiFrame
    /\ \E r \in {generate_quiz_data(quizzes, gen_courses[GeminiCourse],
                                    collections[GeminiCourse].docs, GeminiCourse,
                                    module_number, num_questions, env, reply)} :
          /\ quizzes' = r.quizzes
          /\ fn_out' = [NoResult EXCEPT !.op = "generate_quiz", !.raised = r.raised]
    /\ fn_in' = [NoRequest EXCEPT !.op = "generate_quiz", !.asked = num_questions,
                                  !.module_number = module_number,
                                  !.env = env, !.quiz = reply_class(reply)]
    /\ UNCHANGED gen_courses

\* POST /configs/{id}/quiz/submit
SubmitQuiz(module_number, user_answers) ==
    /\ GeminiFrame
    /\ \E g \in {submit_quiz_answers(quizzes, GeminiCourse, module_number,
                                     user_answers)} :
          fn_out' = [NoResult EXCEPT !.op = "submit", !.raised = g.raised,
                                     !.grade = g]
    /\ fn_in' = [NoRequest EXCEPT !.op = "submit", !.module_number = module_number,
                                  !.answers = user_answers]
    /\ UNCHANGED <<gen_courses, quizzes>>

GeminiNext ==
    \/ \E n \in 0..MaxAsked, env \in GeminiEnvs \ {"ok"} :
          GenerateCourse(n, env, NoReply, NoReply)
    \/ \E n \in 0..MaxAsked, plan \in PlanReplies, mod \in ModuleReplies :
          GenerateCourse(n, "ok", plan, mod)


SpecGemini == GeminiInit /\ [][GeminiNext]_vars

QuizNext ==
    \/ \E m \in 0..MaxQuizModule, n \in 0..MaxAsked, env \in GeminiEnvs \ {"ok"} :
          GenerateQuiz(m, n, env, NoReply)
    \/ \E m \in 0..MaxQuizModule, n \in 0..MaxAsked, reply \in QuizReplies :
          GenerateQuiz(m, n, "ok", reply)
    \/ \E m \in 0..MaxQuizModule, answers \in Submissions : SubmitQuiz(m, answers)

SpecQuiz == QuizInit /\ [][QuizNext]_vars

---------------------------------------------------------------------------
(* Steps 3 and 4 of process_course by themselves: the loop over page_ids,   *)
(* a page at a time, each request to the wiki and to the embedding service  *)
(* answered on its own, and the snapshot.                                   *)

\* page_ids as step 1 leaves it: the linked pages, which may name a page more
\* than once, or the expanded pages in some order.
PageIdLists == UNION {[1..n -> Pages] : n \in 0..MaxPageIds}

PagesCourse == "c1"

\* The answers to the requests of one turn of the loop.
turn_answers(page_id, outcome) ==
    [(CHOOSE a \in FaultFree : a.modules = 1) EXCEPT !.page[page_id] = outcome]

\* processed_pages = [], failed_pages = [] (course_processor.py:66-67), for
\* a course whose collection is empty.
pages_call(page_ids) ==
    [op |-> "pages", pc |-> IF page_ids = <<>> THEN "persist" ELSE "pages",
     next |-> 1, acc |-> [docs |-> {}, processed |-> <<>>, failed |-> <<>>],
     snapshot |-> {}]

PagesInit ==
    /\ \E page_ids \in PageIdLists :
          /\ fn_in \in [op : {"pages"}, page_ids : {page_ids},
                        outcomes : [1..Len(page_ids) -> PageAnswers]]
          /\ fn_out = pages_call(page_ids)
    /\ CourseIdle
    /\ ChunkIdle
    /\ limits = [steps |-> 0, faults |-> 0]

\* One turn of the loop of step 3.
PagesTurn ==
    /\ fn_in.op = "pages"
    /\ fn_out.pc = "pages"
    /\ fn_out' = [fn_out EXCEPT
                    !.acc = process_page(@, fn_in.page_ids[fn_out.next], wiki,
                                turn_answers(fn_in.page_ids[fn_out.next],
                                             fn_in.outcomes[fn_out.next])),
                    !.next = @ + 1,
                    !.pc = IF fn_out.next = Len(fn_in.page_ids)
                           THEN "persist" ELSE "pages"]
    /\ UNCHANGED <<fn_in, ck_args, ck, course_vars>>

\* Step 4: the snapshot is written.
PagesPersist ==
    /\ fn_in.op = "pages"
    /\ fn_out.pc = "persist"
    /\ fn_out' = [fn_out EXCEPT
                    !.snapshot = {processing_result(PagesCourse, fn_in.page_ids,
                                                    fn_out.acc)},
                    !.pc = "done"]
    /\ UNCHANGED <<fn_in, ck_args, ck, course_vars>>

PagesNext == PagesTurn \/ PagesPersist

SpecPages == PagesInit /\ [][PagesNext]_vars

---------------------------------------------------------------------------
(* Claims about chunk_text, checked under SpecChunk.                         *)

\* C7: chunk_text terminates for every text, chunk_size >= 1 and overlap >= 0
\* (overlap >= chunk_size included): the loop is evaluated at most
\* MaxIterations + 1 times (iteration counts the evaluations), at most
\* MaxIterations chunks are collected, and a call that has not returned is
\* at a step it can take (the guard of ChunkCall or of ChunkStep holds).
C7_ChunkTextTerminates ==
    /\ ck.iteration <= MaxIterations + 1
    /\ Len(ck.chunks) <= MaxIterations
    /\ (ck.pc # "done" => ck.pc \in {"call", "loop"})

\* C7 witness: a call with overlap >= chunk_size that returned only because
\* the iteration cap stopped it.
C7_Witness ==
    /\ ck.pc = "done"
    /\ ck_args.overlap >= ck_args.chunk_size
    /\ ck.iteration = MaxIterations + 1

\* C8: every loop iteration that does not reach the end of the text moves the
\* window start strictly forward.
C8_ForwardProgress ==
    (ck.pc = "loop" /\ ck.iteration >= 1) => ck.start > ck.win_start

\* C9: every chunk returned by chunk_text is non-empty and has no leading or
\* trailing whitespace, for a text that fits in one chunk and for a split one.
C9_ChunksTrimmed ==
    ck.pc = "done" =>
        \A i \in 1..Len(ck.chunks) :
            /\ ck.chunks[i] # <<>>
            /\ Head(ck.chunks[i]) \notin Whitespace
            /\ ck.chunks[i][Len(ck.chunks[i])] \notin Whitespace

Terminators == {".", "!", "?"}

\* The positions p, first <= p, of a sentence terminator followed by a space,
\* both inside the window [start, start + chunk_size).
TerminatorsFrom(text, first, start, chunk_size) ==
    {p \in first..(start + chunk_size - 2) :
        p + 2 <= Len(text) /\ text[p + 1] \in Terminators /\ text[p + 2] = " "}

\* The positions p, first <= p, of a space inside the window.
SpacesFrom(text, first, start, chunk_size) ==
    {p \in first..(start + chunk_size - 1) : p + 1 <= Len(text) /\ text[p + 1] = " "}

\* The cut chosen in the order terminator, space, raw boundary, among the
\* positions from first on.
CutFrom(text, first, start, chunk_size) ==
    IF TerminatorsFrom(text, first, start, chunk_size) # {}
    THEN Max(TerminatorsFrom(text, first, start, chunk_size)) + 1
    ELSE IF SpacesFrom(text, first, start, chunk_size) # {}
         THEN Max(SpacesFrom(text, first, start, chunk_size))
         ELSE start + chunk_size

\* Whether the last window the loop cut did not reach the end of the text.
InnerWindow ==
    /\ ck.iteration >= 1
    /\ ck.pc \in {"loop", "done"}
    /\ Len(ck_args.text) > ck_args.chunk_size
    /\ ck.win_start + ck_args.chunk_size < Len(ck_args.text)

\* C10 as claimed: in a window that does not reach the end of the text the cut
\* is just after the last sentence terminator of the window, else at the last
\* space of the window, else at the raw boundary.
C10_CutOrderAsClaimed ==
    InnerWindow =>
        ck.end = CutFrom(ck_args.text, ck.win_start, ck.win_start, ck_args.chunk_size)

\* C10 amended: the same order, among the positions after the window's first
\* character only: a terminator or a space at the window's first position is
\* not a cut.
C10_CutOrder ==
    InnerWindow =>
        ck.end = CutFrom(ck_args.text, ck.win_start + 1, ck.win_start,
                         ck_args.chunk_size)

\* C10 witness: a window cut after a terminator that is not its first
\* character although a later space exists in the window.
C10_Witness ==
    /\ InnerWindow
    /\ TerminatorsFrom(ck_args.text, ck.win_start + 1, ck.win_start,
                       ck_args.chunk_size) # {}
    /\ ck.end < Max(SpacesFrom(ck_args.text, ck.win_start + 1, ck.win_start,
                               ck_args.chunk_size))

\* The loop cut a window and goes on to the next one.
HasSuccessor == ck.pc = "loop" /\ ck.iteration >= 1

\* The characters the window that starts at ck.start shares with the window
\* the loop cut last.
SharedWithNext ==
    Min(ck.end, chunk_end(ck_args.text, ck.start, ck_args.chunk_size)) - ck.start

\* C11: the window after a window [win_start, end) starts at end - overlap,
\* and the two windows then share exactly overlap characters, unless
\* end - overlap is not more than min_progress past win_start, in which case it
\* starts at win_start + min_progress; after the window that reaches the end
\* of the text the start is not moved and no window follows.
C11_NextWindowStart ==
    /\ HasSuccessor =>
          IF ck.end - ck_args.overlap <= ck.win_start + min_progress(ck_args.chunk_size)
          THEN ck.start = ck.win_start + min_progress(ck_args.chunk_size)
          ELSE /\ ck.start = ck.end - ck_args.overlap
               /\ ck.start < Len(ck_args.text)
               /\ SharedWithNext = ck_args.overlap
    /\ (ck.pc = "done" /\ ck.iteration >= 1 /\ ck.iteration <= MaxIterations) =>
          /\ ck.end >= Len(ck_args.text) \/ ck.start >= Len(ck_args.text)
          /\ ck.end >= Len(ck_args.text) => ck.start = ck.win_start

\* C11 witness: a next window that starts overlap > 0 characters before the
\* end of the one before it, more than min_progress past its start.
C11_Witness ==
    /\ HasSuccessor
    /\ ck_args.overlap > 0
    /\ ck.start = ck.end - ck_args.overlap
    /\ ck.start > ck.win_start + min_progress(ck_args.chunk_size)

---------------------------------------------------------------------------
(* Claims about the resolution of the page set, checked under SpecResolve.  *)

\* All pages below a page in the tree of the wiki.
RECURSIVE Descendants(_, _)
Descendants(children, page_id) ==
    UNION {{children[page_id][i]} \cup Descendants(children, children[page_id][i]) :
              i \in 1..Len(children[page_id])}

\* What the claim puts in the place of a linked page: all its descendants
\* if it has children, else the page itself.
Replacement(children, page_id) ==
    IF children[page_id] # <<>> THEN Descendants(children, page_id) ELSE {page_id}

\* The pages were resolved with folder recursion and every request succeeded.
ResolvedCleanly ==
    /\ fn_out.op = "resolve"
    /\ fn_in.config.folder_recursion
    /\ \A p \in ResolvePages : fn_in.answers.tree[p] = "ok"

\* C15: with folder recursion the resolved set of process_course is the
\* union, over the linked pages, of all descendants of a linked page that
\* has children and of the page itself for one that has none; so a linked
\* page with children is in the set only as a descendant of a linked page,
\* and, the result being a set, no page is in it twice.
C15_FoldersReplaced ==
    ResolvedCleanly =>
        fn_out.process =
            UNION {Replacement(fn_in.answers.children, fn_in.config.linked_pages[i]) :
                      i \in 1..Len(fn_in.config.linked_pages)}

\* C17: for the same configuration and the same answers of the wiki,
\* failures of the expansion included, check_for_updates resolves the same
\* set of page IDs as process_course.
C17_SameResolution ==
    fn_out.op = "resolve" => fn_out.check = fn_out.process

---------------------------------------------------------------------------
(* Claims about update detection, checked with the background tasks.       *)

\* The last request was check_for_updates for a course with no snapshot.
CheckedWithoutSnapshot ==
    last_op.name = "check_for_updates" /\ snapshots[last_op.course] = {}

\* C12: without a snapshot check_for_updates answers needs_update = true,
\* the reason that the course was never processed, and empty new_pages,
\* deleted_pages and changed_pages; it resolves no pages and fetches none.
C12_NeverProcessed ==
    CheckedWithoutSnapshot =>
        /\ ~report.raised
        /\ report.needs_update
        /\ report.reason = "Course has never been processed"
        /\ report.new_pages = {} /\ report.deleted_pages = {}
        /\ report.changed_pages = {}
        /\ ~report.resolved /\ report.fetched = {}

\* C12 witness: the check arrives while the first run of a course with
\* folder recursion has not written its snapshot.
C12_Witness ==
    /\ CheckedWithoutSnapshot
    /\ \E config \in configs[last_op.course] : config.folder_recursion
    /\ \E i \in 1..Len(tasks) :
          tasks[i].course = last_op.course /\ Processing(tasks[i])

---------------------------------------------------------------------------
(* Claims about processing, update detection and deletion.                 *)

\* The requests that run process_course.
RunOps == {"create_config", "update_config", "reprocess_course"}

\* The course of the last request, and the snapshot stored for it.
Course == last_op.course

Status == CHOOSE st \in snapshots[Course] : TRUE

\* The page IDs of the entries of a list of a snapshot.
PageIdsOf(pages) == {pages[i].page_id : i \in 1..Len(pages)}

FailedIdsOf(failures) == {failures[i].id : i \in 1..Len(failures)}

\* The chunks a collection holds for a page.
ChunksOfPage(docs, page_id) == {d \in docs : d.page_id = page_id}

\* C1: when a snapshot is stored for the course, check_for_updates does not
\* fail, and it reports as new the resolved pages the snapshot does not list
\* as processed and as deleted the processed pages no longer resolved.
C1_ReportFromSnapshot ==
    (last_op.name = "check_for_updates" /\ snapshots[Course] # {}) =>
        /\ ~report.raised
        /\ report.new_pages = report.current \ PageIdsOf(Status.pages)
        /\ report.deleted_pages = PageIdsOf(Status.pages) \ report.current

\* The last request was check_for_updates for a course with a snapshot.
CheckedWithSnapshot ==
    last_op.name = "check_for_updates" /\ snapshots[Course] # {}

\* The version the snapshot stores for a page it lists.
StoredVersion(page_id) ==
    Status.pages[CHOOSE i \in 1..Len(Status.pages) :
        /\ Status.pages[i].page_id = page_id
        /\ \A j \in 1..(i - 1) : Status.pages[j].page_id # page_id].version

\* C13: the check does not fail, and changed_pages lists, with the stored
\* version as old_version and the fetched one as new_version, exactly the
\* pages that are in the snapshot and in the resolved set, whose fetch
\* succeeds and whose fetched version is greater than the stored one.
C13_ChangedPages ==
    CheckedWithSnapshot =>
        /\ ~report.raised
        /\ report.changed_pages =
              {[page_id     |-> q,
                old_version |-> StoredVersion(q),
                new_version |-> wiki[q].version] :
                  q \in {r \in report.current \cap PageIdsOf(Status.pages) :
                            /\ r \notin report.not_found
                            /\ wiki[r].version > StoredVersion(r)}}

RunConfig == CHOOSE config \in configs[Course] : TRUE

\* The linked pages for which a request of the expansion failed in the last
\* run: the child check, or the fetch of the children of a page that has some.
FailedExpansions ==
    {q \in Range(RunConfig.linked_pages) :
        \/ last_run.tree[q] = "folder_fail"
        \/ last_run.tree[q] \in {"child_fail", "child_raise"} /\ Children[q] # <<>>}

\* The last request ran process_course with folder recursion.
RanWithRecursion ==
    /\ last_op.name \in RunOps
    /\ configs[Course] # {}
    /\ RunConfig.folder_recursion

\* What the other linked pages put in the page set.
OtherPages(page_id) ==
    UNION {Replacement(Children, q) : q \in Range(RunConfig.linked_pages) \ {page_id}}

\* C16: a linked page whose child check or child fetch failed is left out of
\* the page set (unless another linked page brings it in), has an entry in
\* the failures of the snapshot, and the pages of the other linked pages are
\* in the page set.
C16_FailedExpansionExcluded ==
    RanWithRecursion =>
        \A q \in FailedExpansions :
            /\ q \in Range(last_run.page_ids) => q \in OtherPages(q)
            /\ q \in FailedIdsOf(Status.failures)
            /\ OtherPages(q) \subseteq Range(last_run.page_ids)

\* The resolved pages whose fetch failed in the last run, and those that were
\* fetched and embedded.
FailedFetches ==
    {q \in Range(last_run.page_ids) : last_run.page[q] \in {"not_found", "fetch_raise"}}

GoodPages == {q \in Range(last_run.page_ids) : last_run.page[q] = "ok"}

\* C18: a run of process_course always writes its snapshot; a resolved page
\* whose fetch failed is in the failures of the snapshot, and every resolved
\* page whose fetch and embedding succeeded is among the processed pages and
\* has the chunks of its content in the collection.
C18_PageFailureTolerated ==
    last_op.name \in RunOps =>
        /\ snapshots[Course] # {}
        /\ Status.total_pages = Len(last_run.page_ids)
        /\ FailedFetches \subseteq FailedIdsOf(Status.failures)
        /\ \A q \in GoodPages :
              /\ q \in PageIdsOf(Status.pages)
              /\ q \notin FailedIdsOf(Status.failures)
              /\ chunk_records(q, PageChunks[wiki[q].body])
                    \subseteq collections[Course].docs

\* C18 witness: a run in which the fetch of the first page failed and a
\* later page was indexed.
C18_Witness ==
    /\ last_op.name \in RunOps
    /\ Len(last_run.page_ids) > 1
    /\ last_run.page_ids[1] \in FailedFetches
    /\ \E q \in GoodPages : ChunksOfPage(collections[Course].docs, q) # {}

\* The resolved pages with content for which the embedding failed in the last
\* run.
FailedEmbeddings ==
    {q \in Range(last_run.page_ids) :
        last_run.page[q] = "embed_fail" /\ PageChunks[wiki[q].body] # <<>>}

\* The answers in which every request succeeds.
AllOk == CHOOSE a \in FaultFree : TRUE

\* The collection the last run would have left had every embedding succeeded.
DocsWithoutFailure ==
    process_course(Course, last_run.page_ids, wiki, AllOk, last_run.docs_before).docs

\* C19: when the embedding of a page fails, the collection holds for that
\* page exactly the chunks it held before the run (nothing of the fetched
\* content is added), the snapshot lists the page as failed and not as
\* processed, and the chunks of every page whose embedding did not fail are
\* the ones the run leaves when no embedding fails.
C19_NoPartialInsert ==
    (last_op.name \in RunOps /\ last_run.faults = Cardinality(FailedEmbeddings)) =>
        \A q \in FailedEmbeddings :
            /\ ChunksOfPage(collections[Course].docs, q)
                  = ChunksOfPage(last_run.docs_before, q)
            /\ q \in FailedIdsOf(Status.failures)
            /\ q \notin PageIdsOf(Status.pages)
            /\ \A r \in Pages \ FailedEmbeddings :
                  ChunksOfPage(collections[Course].docs, r)
                      = ChunksOfPage(DocsWithoutFailure, r)

\* C19 witness: the embedding failed for a page whose content is new to the
\* collection, in a run that indexed another page.
C19_Witness ==
    /\ last_op.name \in RunOps
    /\ \E q \in FailedEmbeddings :
          /\ ChunksOfPage(last_run.docs_before, q) = {}
          /\ \E r \in Pages \ {q} : ChunksOfPage(collections[Course].docs, r) # {}

\* The requests that run process_course (with delete_page_content) or
\* delete_course_data (with delete_course_collection) for one course.
IsolatedOps == RunOps \cup {"delete_config"}

\* C20: a request that processes or deletes one course leaves the collection,
\* the snapshot and the stored page IDs of every other course as they were, so
\* the chunks it adds are in no other course's collection.
C20_CoursesIsolated ==
    [][\A b \in Courses :
          (last_op'.name \in IsolatedOps /\ last_op'.course # b)
          => /\ collections'[b] = collections[b]
             /\ snapshots'[b] = snapshots[b]
             /\ get_all_page_ids(collections'[b].docs)
                  = get_all_page_ids(collections[b].docs)]_vars

\* A run has changed its course's collection while another course, already
\* processed, holds chunks of a page the run's course holds too.
C20_Witness ==
    /\ last_op.name \in RunOps
    /\ collections[Course].docs # last_run.docs_before
    /\ \E b \in Courses \ {Course} :
          /\ snapshots[b] # {}
          /\ \E p \in Pages : /\ ChunksOfPage(collections[b].docs, p) # {}
                              /\ ChunksOfPage(collections[Course].docs, p) # {}

\* C2: after a run that processed a page again whose chunks differ from the
\* ones an earlier run stored, the collection holds for that page exactly the
\* chunks of the content the run fetched.
C2_NoOrphanedChunks ==
    last_op.name \in RunOps =>
        \A p \in PageIdsOf(Status.pages) :
            (/\ ChunksOfPage(last_run.docs_before, p) # {}
             /\ ChunksOfPage(last_run.docs_before, p) # chunk_records(p, PageChunks[wiki[p].body]))
            => ChunksOfPage(collections[Course].docs, p) = chunk_records(p, PageChunks[wiki[p].body])

\* The last request ran process_course a second time in a row: the snapshot it
\* found lists as processed, at the versions the wiki still has, exactly the
\* pages this run resolved, and no request failed in either run.
SecondRunUnchanged ==
    /\ last_op.name \in RunOps
    /\ last_run.faults = 0
    /\ \E prev \in last_run.snapshot_before :
          /\ prev.failures = <<>>
          /\ PageIdsOf(prev.pages) = Range(last_run.page_ids)
          /\ \A i \in 1..Len(prev.pages) :
                prev.pages[i].version = wiki[prev.pages[i].page_id].version

\* C3: a second run over unchanged content leaves the collection with the
\* chunks it had (same IDs, same number) and records every resolved page as
\* processed and none as failed.
C3_SecondRunIdempotent ==
    SecondRunUnchanged =>
        /\ collections[Course].docs = last_run.docs_before
        /\ Status.failures = <<>>
        /\ Status.failed_pages = 0
        /\ Status.processed_pages = Len(last_run.page_ids)
        /\ [i \in 1..Len(Status.pages) |-> Status.pages[i].page_id] = last_run.page_ids

\* C3 witness: a second run over unchanged content of a course with a page of
\* several chunks.
C3_Witness ==
    /\ SecondRunUnchanged
    /\ \E d \in collections[Course].docs : d.total_chunks > 1

\* The pages the run before the last one resolved and the last one did not.
DroppedPages ==
    {p \in Pages : \E prev \in last_run.snapshot_before :
        /\ p \in PageIdsOf(prev.pages) \cup FailedIdsOf(prev.failures)
        /\ p \notin Range(last_run.page_ids)}

\* C4: a page that one run resolved and the next run of the course does not
\* has no chunk in the collection after that next run.
C4_DroppedPageRemoved ==
    last_op.name \in RunOps =>
        \A p \in DroppedPages : p \notin get_all_page_ids(collections[Course].docs)

\* C4 witness: the run found chunks of a page it no longer resolves.
C4_Witness ==
    /\ last_op.name \in RunOps
    /\ \E p \in DroppedPages : p \in get_all_page_ids(last_run.docs_before)

\* C5: after delete_config nothing stored for the course remains: no
\* collection, no snapshot, no generated course, no quiz.
C5_NothingRemains ==
    last_op.name = "delete_config" =>
        /\ ~collections[Course].exists
        /\ collections[Course].docs = {}
        /\ snapshots[Course] = {}
        /\ gen_courses[Course] = {}
        /\ \A q \in quizzes : q.course_id # Course

\* C6: no two background tasks are running process_course for the same
\* course at the same time.
C6_RunsSerialized ==
    \A i, j \in 1..Len(tasks) :
        (i # j /\ Processing(tasks[i]) /\ Processing(tasks[j]))
            => tasks[i].course # tasks[j].course

---------------------------------------------------------------------------
(* Claims about _call_gemini_with_retry, checked under SpecRetry.           *)

\* The first call that answers with a text, 0 if none of the allowed ones does.
FirstText ==
    IF \E i \in 1..fn_in.max_retries : fn_in.outcomes[i] \in {"text", "blank"}
    THEN CHOOSE i \in 1..fn_in.max_retries :
            /\ fn_in.outcomes[i] \in {"text", "blank"}
            /\ \A j \in 1..(i - 1) : fn_in.outcomes[j] \notin {"text", "blank"}
    ELSE 0

RetryReturned == fn_in.op = "retry" /\ fn_out.pc = "done"

\* C25: _call_gemini_with_retry returns, whatever the calls do; it never
\* makes more than max_retries calls and never raises; it returns the text of
\* the first call that answers with one and calls no more after it; it
\* returns None, after max_retries calls, when no call answers with a text.
C25_RetryTerminates ==
    /\ [](/\ fn_out.calls <= fn_in.max_retries
          /\ ~fn_out.raised
          /\ RetryReturned =>
                IF FirstText # 0
                THEN /\ fn_out.result = fn_in.outcomes[FirstText]
                     /\ fn_out.from_call = FirstText
                     /\ fn_out.calls = FirstText
                ELSE /\ fn_out.result = "None"
                     /\ fn_out.calls = fn_in.max_retries)
    /\ <>RetryReturned

\* C25 witness: with the default max_retries the first call raised, the
\* second came back empty and the text of the third was returned.
C25_Witness ==
    /\ RetryReturned
    /\ fn_in.max_retries = DefaultMaxRetries
    /\ fn_in.outcomes[1] = "raise"
    /\ fn_in.outcomes[2] = "empty"
    /\ fn_out.result = "text"
    /\ fn_out.calls = DefaultMaxRetries

---------------------------------------------------------------------------
(* Claims about quizzes, checked under SpecQuiz.                            *)

Submitted == fn_in.op = "submit"

\* The quiz stored for the course and module of the last request.
StoredQuiz ==
    {q \in quizzes : /\ q.course_id = GeminiCourse
                     /\ q.module_number = fn_in.module_number}

TheQuiz == CHOOSE q \in StoredQuiz : TRUE

\* Every question of the quiz has the keys the prompt asks for and a correct
\* index that is one of its options.
WellFormed(q) ==
    /\ q.questions.type = "array"
    /\ \A i \in 1..Len(q.questions.items) :
          /\ q.questions.items[i].ok
          /\ q.questions.items[i].correct_answer \in
                0..(q.questions.items[i].options - 1)

\* The last request submitted as many answers as the stored quiz has
\* questions, at least one, and the questions are well formed.
Gradable ==
    /\ Submitted
    /\ StoredQuiz # {}
    /\ WellFormed(TheQuiz)
    /\ Len(fn_in.answers) = Len(TheQuiz.questions.items)
    /\ Len(fn_in.answers) >= 1

\* The positions where the answer is the correct index of the question.
Matches ==
    {i \in 1..Len(fn_in.answers) :
        fn_in.answers[i] = TheQuiz.questions.items[i].correct_answer}

\* t tenths of a percent is 100 * c / n rounded to one decimal place.
RoundedTo(t, c, n) ==
    /\ 2 * (t * n - 1000 * c) <= n
    /\ 2 * (1000 * c - t * n) <= n
    /\ (2 * (t * n - 1000 * c) = n \/ 2 * (1000 * c - t * n) = n) => t % 2 = 0

\* C21: for a stored quiz with n >= 1 well-formed questions and n answers,
\* submit_quiz_answers reports as correct_answers the number of positions
\* where the answer is the question's correct index, as score_percentage
\* 100 * correct_answers / n rounded to one decimal place, and passed exactly
\* when 100 * correct_answers / n is at least 70.
C21_Graded ==
    Gradable =>
        /\ ~fn_out.raised
        /\ fn_out.grade.correct_answers = Cardinality(Matches)
        /\ RoundedTo(fn_out.grade.score_tenths, Cardinality(Matches), Len(fn_in.answers))
        /\ fn_out.grade.passed
              <=> (100 * Cardinality(Matches) >= PassMark * Len(fn_in.answers))

\* C21 as claimed: the reported score_percentage is 100 * correct_answers / n
\* itself.
C21_GradedAsClaimed ==
    Gradable =>
        /\ ~fn_out.raised
        /\ fn_out.grade.correct_answers = Cardinality(Matches)
        /\ fn_out.grade.score_tenths * Len(fn_in.answers) = 1000 * Cardinality(Matches)
        /\ fn_out.grade.passed
              <=> (100 * Cardinality(Matches) >= PassMark * Len(fn_in.answers))

\* C21 witness: two of three answers are right, which is reported as 66.7
\* and not passed.
C21_Witness ==
    /\ Gradable
    /\ Len(fn_in.answers) = 3
    /\ fn_out.grade.correct_answers = 2
    /\ fn_out.grade.score_tenths = 667
    /\ ~fn_out.grade.passed

\* C22: submit_quiz_answers grades only if a quiz is stored for the course
\* and module and has as many questions as there are answers; without such
\* a quiz it fails with the not-found error, with another number of answers
\* with the length error; and no submission changes a stored quiz or a
\* generated course.
C22_SubmitGuarded ==
    /\ [](Submitted =>
            /\ ~fn_out.raised =>
                  /\ StoredQuiz # {}
                  /\ py_len(TheQuiz.questions) = Len(fn_in.answers)
            /\ StoredQuiz = {} =>
                  fn_out.raised /\ fn_out.grade.error = "not_found"
            /\ (StoredQuiz # {} /\ py_len(TheQuiz.questions) # Len(fn_in.answers)) =>
                  fn_out.raised /\ fn_out.grade.error = "length")
    /\ [][fn_in'.op = "submit" =>
            quizzes' = quizzes /\ gen_courses' = gen_courses]_vars

\* C22 witness: answers were submitted for a module that has no quiz while
\* the final quiz of the course is stored.
C22_Witness ==
    /\ Submitted
    /\ StoredQuiz = {}
    /\ quizzes # {}
    /\ fn_out.raised
    /\ fn_out.grade.error = "not_found"

\* generate_quiz has returned a quiz for the last request.
QuizReturned == fn_in.op = "generate_quiz" /\ ~fn_out.raised

\* The questions of the stored quiz were made without the model.
FromFallback(q) ==
    /\ q.questions.type = "array"
    /\ \A i \in 1..Len(q.questions.items) :
          q.questions.items[i].source \in {"snippet", "placeholder"}

\* C23: a quiz that generate_quiz returns is stored and has at least one
\* question; if the model gave no value to use, its questions are made from
\* sentences of the content or are the one placeholder question, and each of
\* them has four options and a correct index among them.
C23_QuizNeverEmpty ==
    QuizReturned =>
        /\ StoredQuiz # {}
        /\ TheQuiz.total_questions >= 1
        /\ TheQuiz.total_questions = py_len(TheQuiz.questions)
        /\ fn_in.quiz # "value" =>
              /\ FromFallback(TheQuiz)
              /\ \A i \in 1..Len(TheQuiz.questions.items) :
                    /\ TheQuiz.questions.items[i].options = 4
                    /\ TheQuiz.questions.items[i].correct_answer \in 0..3
              /\ (\E i \in 1..Len(TheQuiz.questions.items) :
                     TheQuiz.questions.items[i].source = "placeholder")
                    => Len(TheQuiz.questions.items) = 1

\* C23 witness: the generation failed and the content has no sentence long
\* enough, so the stored quiz is the placeholder question.
C23_Witness ==
    /\ QuizReturned
    /\ fn_in.quiz = "failed"
    /\ collections[GeminiCourse].docs # {}
    /\ TheQuiz.questions.items = <<placeholder_question>>

---------------------------------------------------------------------------
(* Claims about generate_course_content, checked under SpecGemini.          *)

\* generate_course_content has returned a course for the last request.
CourseReturned == fn_in.op = "generate_course" /\ ~fn_out.raised

TheCourse == CHOOSE co \in gen_courses[GeminiCourse] : TRUE

\* C24: when no generation call gives parseable output, the index of the
\* course holds a chunk, the query is embedded and num_modules >= 1,
\* generate_course_content returns and stores a course with at least one
\* module, and every module of it has a content that is not empty.
C24_CourseFallback ==
    (/\ fn_in.op = "generate_course"
     /\ fn_in.env = "ok"
     /\ fn_in.plan = "failed"
     /\ fn_in.module = "failed"
     /\ fn_in.asked >= 1
     /\ collections[GeminiCourse].docs # {})
    => /\ ~fn_out.raised
       /\ gen_courses[GeminiCourse] # {}
       /\ TheCourse.total_modules >= 1
       /\ Len(TheCourse.modules) = TheCourse.total_modules
       /\ \A k \in 1..Len(TheCourse.modules) :
             /\ TheCourse.modules[k].content.source \in {"chunks", "placeholder"}
             /\ TheCourse.modules[k].content.length > 0

\* C24 witness: every call failed for a course with fewer pages than the
\* modules asked for, and the course has a module made of chunks.
C24_Witness ==
    /\ CourseReturned
    /\ fn_in.plan = "failed"
    /\ fn_in.module = "failed"
    /\ Len(TheCourse.source_pages) < fn_in.asked
    /\ TheCourse.modules[1].content.source = "chunks"

\* The topics of the first k modules, in order.
RECURSIVE TopicsUpTo(_, _)
TopicsUpTo(modules, k) ==
    IF k = 0 THEN <<>> ELSE TopicsUpTo(modules, k - 1) \o modules[k].topics

\* C26: the fallback outline for P >= 1 pages and num_modules = N >= 1 has
\* min(N, P) modules, numbered 1, 2, ... in order; every module has a topic;
\* the topics of the modules, one after the other, are the titles of the
\* pages in the order of the pages, so every page is a topic of exactly one
\* module; and the title of a module is the title of its first page.
C26_FallbackPlan ==
    (CourseReturned /\ fn_in.plan # "value" /\ fn_in.asked >= 1) =>
        /\ Len(TheCourse.source_pages) >= 1
        /\ Len(TheCourse.modules) = Min(fn_in.asked, Len(TheCourse.source_pages))
        /\ \A k \in 1..Len(TheCourse.modules) :
              /\ TheCourse.modules[k].module_number = k
              /\ TheCourse.modules[k].topics # <<>>
              /\ TheCourse.modules[k].title = TheCourse.modules[k].topics[1]
        /\ TopicsUpTo(TheCourse.modules, Len(TheCourse.modules))
              = titles_of(TheCourse.source_pages)

\* C26 witness: three pages in two modules, the second of which has two
\* pages.
C26_Witness ==
    /\ CourseReturned
    /\ fn_in.plan # "value"
    /\ fn_in.asked = 2
    /\ Len(TheCourse.source_pages) = 3
    /\ Len(TheCourse.modules[2].topics) = 2

---------------------------------------------------------------------------
(* Claims about the coverage of chunk_text, checked under SpecChunk.        *)

\* C27: for a text longer than chunk_size, every window after the first
\* starts at or before the end of the window before it, and when chunk_text
\* returns the last window has ended at the end of the text, so that no
\* character of the text lies outside every window.
C27_NoTextLost ==
    Len(ck_args.text) > ck_args.chunk_size =>
        /\ (ck.pc = "loop" /\ ck.iteration >= 1) => ck.start <= ck.end
        /\ ck.pc = "done" => ck.end = Len(ck_args.text)

---------------------------------------------------------------------------
(* Claims about the snapshot of process_course, checked under SpecPages.    *)

\* The page IDs of the entries of a list of the snapshot.
ListedIn(list, key) == {list[i][key] : i \in 1..Len(list)}

\* C28: in the snapshot process_course writes, total_pages is the processed
\* count plus the failed count, and every resolved page ID is in exactly one
\* of the list of pages and the list of failures.
C28_SnapshotLists ==
    \A s \in fn_out.snapshot :
        /\ s.total_pages = s.processed_pages + s.failed_pages
        /\ \A p \in Range(fn_in.page_ids) :
              (p \in ListedIn(s.pages, "page_id")) # (p \in ListedIn(s.failures, "id"))

---------------------------------------------------------------------------
(* Claims about the pages of one run, checked under SpecCourse.             *)

\* The number of entries of a list of the snapshot that name page p.
Entries(list, key, p) == Cardinality({i \in 1..Len(list) : list[i][key] = p})

\* C29: within one run of process_course each page ID is fetched and indexed
\* at most once, that is, takes at most one turn of the loop over page_ids,
\* and has at most one entry in the snapshot, with folder_recursion on or off
\* and also when the linked pages name it twice.
C29_EachPageOnce ==
    /\ \A i, j \in 1..Len(last_run.page_ids) :
          last_run.page_ids[i] = last_run.page_ids[j] => i = j
    /\ \A c \in Courses : \A s \in snapshots[c] : \A p \in Pages :
          Entries(s.pages, "page_id", p) + Entries(s.failures, "id", p) <= 1


---------------------------------------------------------------------------
(* Claims about overlapping runs, checked with the background tasks.        *)

\* The page IDs a run resolved, as its snapshot holds them: every page of
\* page_ids is listed under pages or under failures.
SnapshotPageIds(s) == ListedIn(s.pages, "page_id") \cup ListedIn(s.failures, "id")

\* C30: once the background tasks of a course have finished, also when two
\* of them ran process_course at the same time, every page ID in the index
\* of the course is in the resolved page set of the run whose snapshot is
\* the stored one.
C30_IndexWithinSnapshot ==
    \A c \in Courses :
        (\A i \in 1..Len(tasks) : tasks[i].course # c) =>
            \A s \in snapshots[c] :
                get_all_page_ids(collections[get_or_create_collection(c)].docs)
                    \subseteq SnapshotPageIds(s)

===========================================================================
